---- MODULE Spec2Model ----
(***************************************************************************)
(* Peer-score engine of the gossipsub overlay (src/ts/tracer.ts, class     *)
(* PeerScore).  The state of a PeerScore instance is modelled as the       *)
(* variables below, each public method as one action.  Scores and counters *)
(* are JavaScript numbers in the code; the parameters chosen here make     *)
(* every value an integer (decay 1/2, and a refresh is taken only from     *)
(* states whose decayed counters are integers again), so that the          *)
(* arithmetic of the model is exact.                                       *)
(***************************************************************************)
EXTENDS Integers, Sequences, FiniteSets, TLC

VARIABLES
    now,              \* the clock read by Date.now()
    peerStats,        \* PeerScore.peerStats     : id -> PeerStats
    peerIPs,          \* PeerScore.peerIPs       : ip -> set of ids
    deliveryRecords,  \* PeerScore.deliveryRecords (map part) : msgId -> record
    queue,            \* PeerScore.deliveryRecords (FIFO part): msgIds in insertion order
    last,             \* history: the operation that produced this state
    running,          \* PeerScore._backgroundInterval is set
    pending,          \* message hooks suspended at their await of the message id
    promises,         \* IWantTracer.promises : msgId -> (peer -> expiry time)
    broken            \* what the last getBrokenPromises() returned

vars == <<now, peerStats, peerIPs, deliveryRecords, queue, last,
          running, pending, promises, broken>>

\* what the methods that run to their end in one step leave alone: the
\* ticker, the suspended hooks and the promise tracker
otherVars == <<running, pending, promises, broken>>

---------------------------------------------------------------------------
(* Bounds of the model *)

\* the clock runs from 1 (Date.now() is never 0) to MaxTime
MaxTime == 3
\* largest values the uncapped counters may take: a hook that would exceed
\* one of them is not taken
MaxBehaviourPenalty == 1
MaxInvalidDeliveries == 2
MaxFailurePenalty == 4

PeerIds == {"p1", "p2"}
IPAddrs == {"i1", "i2"}
ScoredTopics == {"t1"}
MsgIds == {"m1"}

---------------------------------------------------------------------------
(* Generic helpers for JS Map / Set / Array values *)

EmptyMap == [x \in {} |-> x]

MapPut(f, k, v) == [x \in (DOMAIN f) \cup {k} |-> IF x = k THEN v ELSE f[x]]

MapDel(f, k) == [x \in (DOMAIN f) \ {k} |-> f[x]]

Range(s) == {s[i] : i \in DOMAIN s}

Min(a, b) == IF a < b THEN a ELSE b

Max(a, b) == IF a > b THEN a ELSE b

---------------------------------------------------------------------------
(* Parameters: the PeerScoreParams the instance was constructed with.      *)
(* Rationals (decay factors, decayToZero) are [num, den] pairs.            *)

TopicParams ==
    [ topicWeight                     |-> 1,
      timeInMeshWeight                |-> 1,
      timeInMeshQuantum               |-> 1,
      timeInMeshCap                   |-> 2,
      firstMessageDeliveriesWeight    |-> 1,
      firstMessageDeliveriesDecay     |-> [num |-> 1, den |-> 2],
      firstMessageDeliveriesCap       |-> 1,
      meshMessageDeliveriesWeight     |-> -1,
      meshMessageDeliveriesDecay      |-> [num |-> 1, den |-> 2],
      meshMessageDeliveriesCap        |-> 2,
      meshMessageDeliveriesThreshold  |-> 2,
      meshMessageDeliveriesWindow     |-> 1,
      meshMessageDeliveriesActivation |-> 1,
      meshFailurePenaltyWeight        |-> -1,
      meshFailurePenaltyDecay         |-> [num |-> 1, den |-> 2],
      invalidMessageDeliveriesWeight  |-> -1,
      invalidMessageDeliveriesDecay   |-> [num |-> 1, den |-> 2] ]

params ==
    [ topics                      |-> [t \in ScoredTopics |-> TopicParams],
      topicScoreCap               |-> 2,
      appSpecificScore            |-> [id \in PeerIds |-> IF id = "p1" THEN 1 ELSE 0],
      appSpecificWeight           |-> 1,
      IPColocationFactorWeight    |-> -1,
      IPColocationFactorThreshold |-> 1,
      IPColocationFactorWhitelist |-> {},
      behaviourPenaltyWeight      |-> -1,
      behaviourPenaltyThreshold   |-> 0,
      behaviourPenaltyDecay       |-> [num |-> 1, den |-> 2],
      decayToZero                 |-> [num |-> 3, den |-> 4],
      retainScore                 |-> 1 ]

---------------------------------------------------------------------------
(* peer-stats: createPeerStats, createTopicStats, ensureTopicStats *)

createTopicStats ==
    [ inMesh                      |-> FALSE,
      graftTime                   |-> 0,
      meshTime                    |-> 0,
      firstMessageDeliveries      |-> 0,
      meshMessageDeliveries       |-> 0,
      meshMessageDeliveriesActive |-> FALSE,
      meshFailurePenalty          |-> 0,
      invalidMessageDeliveries    |-> 0 ]

createPeerStats ==
    [ connected        |-> TRUE,
      expire           |-> 0,
      topics           |-> EmptyMap,
      behaviourPenalty |-> 0,
      ips              |-> <<>> ]

scoredTopicAlways(topic) == TRUE

\* ensureTopicStats makes TopicStats for this topic: params.topics has it
scoredTopic(topic) == topic \in DOMAIN params.topics

\* TRUE iff ensureTopicStats returns a TopicStats (an existing one, or a new
\* one for a scored topic)
hasTopicStats(pstats, topic) ==
    topic \in DOMAIN pstats.topics \/ scoredTopic(topic)

\* the PeerStats after ensureTopicStats(topic, pstats, params)
ensureTopicStats(pstats, topic) ==
    IF topic \in DOMAIN pstats.topics \/ ~scoredTopic(topic)
    THEN pstats
    ELSE [pstats EXCEPT !.topics = MapPut(@, topic, createTopicStats)]

---------------------------------------------------------------------------
(* compute-score: computeScore(id, pstats, params, peerIPs) *)

RECURSIVE SumOver(_, _)
\* sum of f[x] for x in DOMAIN f
SumOver(f, S) ==
    IF S = {} THEN 0
    ELSE LET x == CHOOSE y \in S : TRUE IN f[x] + SumOver(f, S \ {x})

topicScore(tstats, tp) ==
    LET p1raw == tstats.meshTime \div tp.timeInMeshQuantum
        p1 == IF tstats.inMesh THEN Min(p1raw, tp.timeInMeshCap) ELSE 0
        p2 == tstats.firstMessageDeliveries
        deficit == tp.meshMessageDeliveriesThreshold - tstats.meshMessageDeliveries
        p3 == IF tstats.meshMessageDeliveriesActive /\ deficit > 0
              THEN deficit * deficit ELSE 0
        p3b == tstats.meshFailurePenalty
        p4 == tstats.invalidMessageDeliveries * tstats.invalidMessageDeliveries
    IN tp.topicWeight *
         ( p1 * tp.timeInMeshWeight
         + p2 * tp.firstMessageDeliveriesWeight
         + p3 * tp.meshMessageDeliveriesWeight
         + p3b * tp.meshFailurePenaltyWeight
         + p4 * tp.invalidMessageDeliveriesWeight )

\* the IP colocation part: one term per entry of the ips list
ipColocationScore(ips, pips) ==
    LET term(ip) ==
            LET n == IF ip \in DOMAIN pips THEN Cardinality(pips[ip]) ELSE 0
                surplus == n - params.IPColocationFactorThreshold
            IN IF ip \notin params.IPColocationFactorWhitelist /\ surplus > 0
               THEN params.IPColocationFactorWeight * surplus * surplus
               ELSE 0
    IN SumOver([i \in DOMAIN ips |-> term(ips[i])], DOMAIN ips)

computeScore(id, pstats, pips) ==
    LET scored == (DOMAIN pstats.topics) \cap (DOMAIN params.topics)
        raw == SumOver([t \in scored |->
                          topicScore(pstats.topics[t], params.topics[t])], scored)
        capped == IF params.topicScoreCap > 0 /\ raw > params.topicScoreCap
                  THEN params.topicScoreCap ELSE raw
        excess == Max(0, pstats.behaviourPenalty - params.behaviourPenaltyThreshold)
    IN capped
       + params.appSpecificScore[id] * params.appSpecificWeight
       + ipColocationScore(pstats.ips, pips)
       + params.behaviourPenaltyWeight * excess * excess

scoreWithoutStats(ps, pips, id) == 0

\* PeerScore.score(id)
score(ps, pips, id) ==
    IF id \notin DOMAIN ps THEN 0 ELSE computeScore(id, ps[id], pips)

---------------------------------------------------------------------------
(* IP tracking: _setIPs, _removeIPs, _updateIPs *)

\* one iteration of the second loop of _setIPs and of the loop of _removeIPs:
\* take id out of the bucket of ip, and delete the bucket when it is empty
untrackIP(pips, id, ip) ==
    IF ip \notin DOMAIN pips THEN pips
    ELSE IF pips[ip] \ {id} = {} THEN MapDel(pips, ip)
    ELSE [pips EXCEPT ![ip] = @ \ {id}]

\* one iteration of the first loop of _setIPs
trackIP(pips, id, ip) ==
    IF ip \in DOMAIN pips THEN [pips EXCEPT ![ip] = @ \cup {id}]
    ELSE MapPut(pips, ip, {id})

RECURSIVE addNewIPs(_, _, _, _, _)
addNewIPs(pips, id, newIPs, oldIPs, i) ==
    IF i > Len(newIPs) THEN pips
    ELSE IF newIPs[i] \in Range(oldIPs)
         THEN addNewIPs(pips, id, newIPs, oldIPs, i + 1)
         ELSE addNewIPs(trackIP(pips, id, newIPs[i]), id, newIPs, oldIPs, i + 1)

RECURSIVE removeOldIPs(_, _, _, _, _)
removeOldIPs(pips, id, newIPs, oldIPs, i) ==
    IF i > Len(oldIPs) THEN pips
    ELSE IF oldIPs[i] \in Range(newIPs)
         THEN removeOldIPs(pips, id, newIPs, oldIPs, i + 1)
         ELSE removeOldIPs(untrackIP(pips, id, oldIPs[i]), id, newIPs, oldIPs, i + 1)

\* peerIPs after _setIPs(id, newIPs, oldIPs)
setIPs(pips, id, newIPs, oldIPs) ==
    removeOldIPs(addNewIPs(pips, id, newIPs, oldIPs, 1), id, newIPs, oldIPs, 1)

RECURSIVE removeIPsFrom(_, _, _, _)
removeIPsFrom(pips, id, ips, i) ==
    IF i > Len(ips) THEN pips
    ELSE removeIPsFrom(untrackIP(pips, id, ips[i]), id, ips, i + 1)

\* peerIPs after _removeIPs(id, ips)
removeIPs(pips, id, ips) == removeIPsFrom(pips, id, ips, 1)

RECURSIVE updateIPsOver(_, _, _, _)
\* peerIPs after the loop of _updateIPs over the peers in S, where getIPs[id]
\* is what the connection manager returns for id
updateIPsOver(ps, pips, getIPs, S) ==
    IF S = {} THEN pips
    ELSE LET id == CHOOSE x \in S : TRUE
         IN updateIPsOver(ps, setIPs(pips, id, getIPs[id], ps[id].ips), getIPs, S \ {id})

---------------------------------------------------------------------------
(* Periodic decay: _refreshScores *)

\* x multiplied by the decay factor d, set to 0 when the product is below
\* decayToZero
decay(x, d) ==
    IF x * d.num * params.decayToZero.den < params.decayToZero.num * d.den
    THEN 0
    ELSE (x * d.num) \div d.den

\* the decayed value of x is an integer again
decaysExactly(x, d) ==
    \/ x * d.num * params.decayToZero.den < params.decayToZero.num * d.den
    \/ (x * d.num) % d.den = 0

\* the body of the per-topic loop of _refreshScores
refreshTopicStats(tstats, tp, t) ==
    LET meshTime == t - tstats.graftTime
    IN [tstats EXCEPT
          !.firstMessageDeliveries = decay(@, tp.firstMessageDeliveriesDecay),
          !.meshMessageDeliveries = decay(@, tp.meshMessageDeliveriesDecay),
          !.meshFailurePenalty = decay(@, tp.meshFailurePenaltyDecay),
          !.invalidMessageDeliveries = decay(@, tp.invalidMessageDeliveriesDecay),
          !.meshTime = IF tstats.inMesh THEN meshTime ELSE @,
          !.meshMessageDeliveriesActive =
              IF tstats.inMesh /\ meshTime > tp.meshMessageDeliveriesActivation
              THEN TRUE ELSE @]

\* the retention period of a disconnected peer has expired at time t
retentionExpired(pstats, t) == t > pstats.expire

refreshPeerStatsKeepingPenalty(pstats, t) ==
    [pstats EXCEPT
       !.topics = [tp \in DOMAIN pstats.topics |->
                     IF tp \in DOMAIN params.topics
                     THEN refreshTopicStats(pstats.topics[tp], params.topics[tp], t)
                     ELSE pstats.topics[tp]]]

\* the PeerStats of a connected peer after one _refreshScores run at time t
refreshPeerStats(pstats, t) ==
    [pstats EXCEPT
       !.topics = [tp \in DOMAIN pstats.topics |->
                     IF tp \in DOMAIN params.topics
                     THEN refreshTopicStats(pstats.topics[tp], params.topics[tp], t)
                     ELSE pstats.topics[tp]],
       !.behaviourPenalty = decay(@, params.behaviourPenaltyDecay)]

RECURSIVE removeIPsOfPeers(_, _, _)
\* peerIPs after _removeIPs(id, ps[id].ips) for every id in S
removeIPsOfPeers(ps, pips, S) ==
    IF S = {} THEN pips
    ELSE LET id == CHOOSE x \in S : TRUE
         IN removeIPsOfPeers(ps, removeIPs(pips, id, ps[id].ips), S \ {id})

refreshScoresDecayingAll(ps, pips, t) ==
    LET dropped == {id \in DOMAIN ps :
                      ~ps[id].connected /\ retentionExpired(ps[id], t)}
    IN [ peerStats |-> [id \in (DOMAIN ps) \ dropped |-> refreshPeerStats(ps[id], t)],
         peerIPs   |-> removeIPsOfPeers(ps, pips, dropped) ]

\* peerStats and peerIPs after _refreshScores() at time t
refreshScores(ps, pips, t) ==
    LET dropped == {id \in DOMAIN ps :
                      ~ps[id].connected /\ retentionExpired(ps[id], t)}
    IN [ peerStats |-> [id \in (DOMAIN ps) \ dropped |->
                          IF ps[id].connected THEN refreshPeerStats(ps[id], t)
                          ELSE ps[id]],
         peerIPs   |-> removeIPsOfPeers(ps, pips, dropped) ]

\* every counter a _refreshScores run would decay stays an integer
refreshIsExact(ps) ==
    \A id \in DOMAIN ps :
        ps[id].connected =>
            /\ decaysExactly(ps[id].behaviourPenalty, params.behaviourPenaltyDecay)
            /\ \A tp \in (DOMAIN ps[id].topics) \cap (DOMAIN params.topics) :
                 LET ts == ps[id].topics[tp]
                     pr == params.topics[tp]
                 IN /\ decaysExactly(ts.firstMessageDeliveries, pr.firstMessageDeliveriesDecay)
                    /\ decaysExactly(ts.meshMessageDeliveries, pr.meshMessageDeliveriesDecay)
                    /\ decaysExactly(ts.meshFailurePenalty, pr.meshFailurePenaltyDecay)
                    /\ decaysExactly(ts.invalidMessageDeliveries, pr.invalidMessageDeliveriesDecay)

---------------------------------------------------------------------------
(* Peer hooks: addPenalty, addPeer, removePeer, graft, prune *)

\* (mutation: the penalty of an unknown peer is recorded in a new PeerStats)
addPenaltyCreatingPeer(ps, id, penalty) ==
    IF id \notin DOMAIN ps
    THEN MapPut(ps, id, [createPeerStats EXCEPT !.behaviourPenalty = penalty])
    ELSE [ps EXCEPT ![id].behaviourPenalty = @ + penalty]

\* peerStats after addPenalty(id, penalty)
addPenalty(ps, id, penalty) ==
    IF id \notin DOMAIN ps THEN ps
    ELSE [ps EXCEPT ![id].behaviourPenalty = @ + penalty]

\* peerStats and peerIPs after addPeer(id), the connection manager
\* returning ips
addPeer(ps, pips, id, ips) ==
    LET pstats == createPeerStats
    IN [ peerStats |-> MapPut(ps, id, [pstats EXCEPT !.ips = ips]),
         peerIPs   |-> setIPs(pips, id, ips, pstats.ips) ]

failurePenaltyLinear(tstats, tp) ==
    LET deficit == tp.meshMessageDeliveriesThreshold - tstats.meshMessageDeliveries
    IN IF deficit > 0 THEN deficit ELSE 0

\* the sticky mesh-delivery failure penalty applied by removePeer and prune
failurePenalty(tstats, tp) ==
    LET deficit == tp.meshMessageDeliveriesThreshold - tstats.meshMessageDeliveries
    IN IF deficit > 0 THEN deficit * deficit ELSE 0

retainPeerStatsKeepingFirst(pstats, t) ==
    [pstats EXCEPT
       !.topics = [tp \in DOMAIN pstats.topics |->
                     LET ts == pstats.topics[tp]
                     IN [ts EXCEPT
                           !.meshFailurePenalty =
                               IF ts.inMesh /\ ts.meshMessageDeliveriesActive
                               THEN @ + failurePenalty(ts, params.topics[tp])
                               ELSE @,
                           !.inMesh = FALSE]],
       !.connected = FALSE,
       !.expire = t + params.retainScore]

\* the PeerStats of a peer whose score removePeer retains, at time t
retainPeerStats(pstats, t) ==
    [pstats EXCEPT
       !.topics = [tp \in DOMAIN pstats.topics |->
                     LET ts == pstats.topics[tp]
                     IN [ts EXCEPT
                           !.firstMessageDeliveries = 0,
                           !.meshFailurePenalty =
                               IF ts.inMesh /\ ts.meshMessageDeliveriesActive
                               THEN @ + failurePenalty(ts, params.topics[tp])
                               ELSE @,
                           !.inMesh = FALSE]],
       !.connected = FALSE,
       !.expire = t + params.retainScore]

\* removePeer drops the peer at once instead of retaining its score
dropsImmediately(ps, pips, id) == score(ps, pips, id) > 0

\* peerStats and peerIPs after removePeer(id) at time t
removePeer(ps, pips, id, t) ==
    IF id \notin DOMAIN ps THEN [peerStats |-> ps, peerIPs |-> pips]
    ELSE IF dropsImmediately(ps, pips, id)
    THEN [ peerStats |-> MapDel(ps, id),
           peerIPs   |-> removeIPs(pips, id, ps[id].ips) ]
    ELSE [ peerStats |-> [ps EXCEPT ![id] = retainPeerStats(@, t)],
           peerIPs   |-> pips ]

graftKeepingActive(ps, id, topic, t) ==
    IF id \notin DOMAIN ps \/ ~hasTopicStats(ps[id], topic) THEN ps
    ELSE [ps EXCEPT ![id] =
            [ensureTopicStats(@, topic) EXCEPT
               !.topics[topic].inMesh = TRUE,
               !.topics[topic].graftTime = t,
               !.topics[topic].meshTime = 0]]

\* peerStats after graft(id, topic) at time t
graft(ps, id, topic, t) ==
    IF id \notin DOMAIN ps \/ ~hasTopicStats(ps[id], topic) THEN ps
    ELSE [ps EXCEPT ![id] =
            [ensureTopicStats(@, topic) EXCEPT
               !.topics[topic].inMesh = TRUE,
               !.topics[topic].graftTime = t,
               !.topics[topic].meshTime = 0,
               !.topics[topic].meshMessageDeliveriesActive = FALSE]]

\* (mutation: prune penalises only a topic that is in the mesh, as
\* removePeer does)
pruneOnlyInMesh(ps, id, topic) ==
    IF id \notin DOMAIN ps \/ ~hasTopicStats(ps[id], topic) THEN ps
    ELSE LET pstats == ensureTopicStats(ps[id], topic)
             ts == pstats.topics[topic]
         IN [ps EXCEPT ![id] =
               [pstats EXCEPT
                  !.topics[topic].meshFailurePenalty =
                      IF ts.inMesh /\ ts.meshMessageDeliveriesActive
                      THEN @ + failurePenalty(ts, params.topics[topic])
                      ELSE @,
                  !.topics[topic].inMesh = FALSE]]

\* peerStats after prune(id, topic)
prune(ps, id, topic) ==
    IF id \notin DOMAIN ps \/ ~hasTopicStats(ps[id], topic) THEN ps
    ELSE LET pstats == ensureTopicStats(ps[id], topic)
             ts == pstats.topics[topic]
         IN [ps EXCEPT ![id] =
               [pstats EXCEPT
                  !.topics[topic].meshFailurePenalty =
                      IF ts.meshMessageDeliveriesActive
                      THEN @ + failurePenalty(ts, params.topics[topic])
                      ELSE @,
                  !.topics[topic].inMesh = FALSE]]

---------------------------------------------------------------------------
(* message-deliveries: MessageDeliveries.ensureRecord, gc, clear *)

\* how long a delivery record is kept after it was first seen
TimeCacheDuration == 1

Unknown == "unknown"
Valid == "valid"
Invalid == "invalid"
Ignored == "ignored"

ensureRecordLongLived(recs, q, msgId, t) ==
    IF msgId \in DOMAIN recs THEN [records |-> recs, queue |-> q]
    ELSE [ records |-> MapPut(recs, msgId,
                         [ status    |-> Unknown,
                           firstSeen |-> t,
                           validated |-> 0,
                           peers     |-> {} ]),
           queue   |-> Append(q, [msgId |-> msgId, expire |-> t + TimeCacheDuration + 1]) ]

\* records and queue after ensureRecord(msgId) at time t
ensureRecord(recs, q, msgId, t) ==
    IF msgId \in DOMAIN recs THEN [records |-> recs, queue |-> q]
    ELSE [ records |-> MapPut(recs, msgId,
                         [ status    |-> Unknown,
                           firstSeen |-> t,
                           validated |-> 0,
                           peers     |-> {} ]),
           queue   |-> Append(q, [msgId |-> msgId, expire |-> t + TimeCacheDuration]) ]

RECURSIVE gc(_, _, _)
\* records and queue after gc() at time t
gc(recs, q, t) ==
    IF q = <<>> \/ Head(q).expire > t THEN [records |-> recs, queue |-> q]
    ELSE gc(MapDel(recs, Head(q).msgId), Tail(q), t)

---------------------------------------------------------------------------
(* Messages.  An InMessage is [id, receivedFrom, topicIDs]; the            *)
(* MessageIdFunction returns its id field.  "u1" is a topic that is not    *)
(* scored.                                                                 *)

ERR_MISSING_SIGNATURE == "ERR_MISSING_SIGNATURE"
ERR_INVALID_SIGNATURE == "ERR_INVALID_SIGNATURE"
ERR_TOPIC_VALIDATOR_IGNORE == "ERR_TOPIC_VALIDATOR_IGNORE"
ERR_TOPIC_VALIDATOR_REJECT == "ERR_TOPIC_VALIDATOR_REJECT"

\* (any other reason is treated like ERR_TOPIC_VALIDATOR_REJECT)
Reasons ==
    { ERR_MISSING_SIGNATURE, ERR_INVALID_SIGNATURE,
      ERR_TOPIC_VALIDATOR_IGNORE, ERR_TOPIC_VALIDATOR_REJECT, "ERR_OTHER" }

\* the topics a message id is published in
TopicIDs(m) == <<"t1", "u1">>

Message(m, from) == [id |-> m, receivedFrom |-> from, topicIDs |-> TopicIDs(m)]

---------------------------------------------------------------------------
(* Counter updates: _markInvalidMessageDelivery, _markFirstMessageDelivery,*)
(* _markDuplicateMessageDelivery                                           *)

\* the body of the topic loop of _markInvalidMessageDelivery
markInvalidTopic(pstats, topic) ==
    IF ~hasTopicStats(pstats, topic) THEN pstats
    ELSE [ensureTopicStats(pstats, topic) EXCEPT
            !.topics[topic].invalidMessageDeliveries = @ + 1]

\* (mutation: firstMessageDeliveries is not clamped to its cap)
markFirstTopicUncapped(pstats, topic) ==
    IF ~hasTopicStats(pstats, topic) THEN pstats
    ELSE LET tp == params.topics[topic]
             p1 == [ensureTopicStats(pstats, topic) EXCEPT
                      !.topics[topic].firstMessageDeliveries = @ + 1]
         IN IF ~p1.topics[topic].inMesh THEN p1
            ELSE [p1 EXCEPT !.topics[topic].meshMessageDeliveries =
                                Min(@ + 1, tp.meshMessageDeliveriesCap)]

\* the body of the topic loop of _markFirstMessageDelivery
markFirstTopic(pstats, topic) ==
    IF ~hasTopicStats(pstats, topic) THEN pstats
    ELSE LET tp == params.topics[topic]
             p1 == [ensureTopicStats(pstats, topic) EXCEPT
                      !.topics[topic].firstMessageDeliveries =
                          Min(@ + 1, tp.firstMessageDeliveriesCap)]
         IN IF ~p1.topics[topic].inMesh THEN p1
            ELSE [p1 EXCEPT !.topics[topic].meshMessageDeliveries =
                                Min(@ + 1, tp.meshMessageDeliveriesCap)]

\* (mutation: a duplicate at the very end of the window is too late)
outsideWindowAtEnd(validatedTime, t, tp) ==
    LET nowOrZero == IF validatedTime # 0 THEN t ELSE 0
    IN validatedTime # 0 /\ nowOrZero >= validatedTime + tp.meshMessageDeliveriesWindow

\* the window test of _markDuplicateMessageDelivery: the duplicate came too
\* late to count (validatedTime = 0: it came before validation ended)
outsideWindow(validatedTime, t, tp) ==
    LET nowOrZero == IF validatedTime # 0 THEN t ELSE 0
    IN validatedTime # 0 /\ nowOrZero > validatedTime + tp.meshMessageDeliveriesWindow

\* the body of the topic loop of _markDuplicateMessageDelivery
markDuplicateTopic(pstats, topic, validatedTime, t) ==
    IF ~hasTopicStats(pstats, topic) THEN pstats
    ELSE LET tp == params.topics[topic]
             p1 == ensureTopicStats(pstats, topic)
         IN IF ~p1.topics[topic].inMesh THEN p1
            ELSE IF outsideWindow(validatedTime, t, tp) THEN p1
            ELSE [p1 EXCEPT !.topics[topic].meshMessageDeliveries =
                                Min(@ + 1, tp.meshMessageDeliveriesCap)]

RECURSIVE markInvalidTopics(_, _, _)
markInvalidTopics(pstats, topicIDs, i) ==
    IF i > Len(topicIDs) THEN pstats
    ELSE markInvalidTopics(markInvalidTopic(pstats, topicIDs[i]), topicIDs, i + 1)

RECURSIVE markFirstTopics(_, _, _)
markFirstTopics(pstats, topicIDs, i) ==
    IF i > Len(topicIDs) THEN pstats
    ELSE markFirstTopics(markFirstTopic(pstats, topicIDs[i]), topicIDs, i + 1)

RECURSIVE markDuplicateTopics(_, _, _, _, _)
markDuplicateTopics(pstats, topicIDs, validatedTime, t, i) ==
    IF i > Len(topicIDs) THEN pstats
    ELSE markDuplicateTopics(markDuplicateTopic(pstats, topicIDs[i], validatedTime, t),
                             topicIDs, validatedTime, t, i + 1)

\* peerStats after _markInvalidMessageDelivery(id, message)
markInvalidMessageDelivery(ps, id, message) ==
    IF id \notin DOMAIN ps THEN ps
    ELSE [ps EXCEPT ![id] = markInvalidTopics(@, message.topicIDs, 1)]

\* peerStats after _markFirstMessageDelivery(id, message)
markFirstMessageDelivery(ps, id, message) ==
    IF id \notin DOMAIN ps THEN ps
    ELSE [ps EXCEPT ![id] = markFirstTopics(@, message.topicIDs, 1)]

\* peerStats after _markDuplicateMessageDelivery(id, message, validatedTime)
\* at time t
markDuplicateMessageDelivery(ps, id, message, validatedTime, t) ==
    IF id \notin DOMAIN ps THEN ps
    ELSE [ps EXCEPT ![id] = markDuplicateTopics(@, message.topicIDs, validatedTime, t, 1)]

RECURSIVE markInvalidForAll(_, _, _)
\* peerStats after _markInvalidMessageDelivery(p, message) for every p in S
markInvalidForAll(ps, S, message) ==
    IF S = {} THEN ps
    ELSE LET p == CHOOSE x \in S : TRUE
         IN markInvalidForAll(markInvalidMessageDelivery(ps, p, message), S \ {p}, message)

RECURSIVE markDuplicateForAll(_, _, _, _)
\* peerStats after _markDuplicateMessageDelivery(p, message) for every p in S
markDuplicateForAll(ps, S, message, t) ==
    IF S = {} THEN ps
    ELSE LET p == CHOOSE x \in S : TRUE
         IN markDuplicateForAll(markDuplicateMessageDelivery(ps, p, message, 0, t),
                                S \ {p}, message, t)

---------------------------------------------------------------------------
(* Message hooks: validateMessage, deliverMessage, rejectMessage,          *)
(* duplicateMessage.  Each yields peerStats, records and queue after the   *)
(* hook has run to its end at time t; deliverMessage, which changes        *)
(* peerStats before it awaits the message id, is in two parts.             *)

Outcome(ps, er) == [peerStats |-> ps, records |-> er.records, queue |-> er.queue]

validateMessage(ps, recs, q, message, t) ==
    Outcome(ps, ensureRecord(recs, q, message.id, t))

\* what deliverMessage does before it awaits the message id
deliverMessageBeforeId(ps, message) ==
    markFirstMessageDelivery(ps, message.receivedFrom, message)

creditedForwardersNone(drec, id) == {}

\* the forwarders of the record that deliverMessage credits with a duplicate
\* delivery
creditedForwarders(drec, id) == drec.peers \ {id}

\* what deliverMessage does once the message id is there, at time t
deliverMessageAfterId(ps1, recs, q, message, t) ==
    LET id == message.receivedFrom
        er == ensureRecord(recs, q, message.id, t)
        drec == er.records[message.id]
    IN IF drec.status # Unknown THEN Outcome(ps1, er)
       ELSE [ peerStats |-> markDuplicateForAll(ps1, creditedForwarders(drec, id), message, t),
              records   |-> [er.records EXCEPT ![message.id].status = Valid,
                                               ![message.id].validated = t],
              queue     |-> er.queue ]

\* (mutation: the earlier forwarders go unpunished)
penalisedForwardersNone(drec) == {}

\* the forwarders of the record that rejectMessage penalises after
\* receivedFrom
penalisedForwarders(drec) == drec.peers

\* (mutation: only the missing signature is handled before the record)
signatureRejectionMissingOnly(reason) == reason = ERR_MISSING_SIGNATURE

\* the first switch of rejectMessage: the reasons that are handled without
\* looking at the delivery record
signatureRejection(reason) ==
    reason \in {ERR_MISSING_SIGNATURE, ERR_INVALID_SIGNATURE}

\* (mutation: the cascade skips receivedFrom, as that of deliverMessage does)
markInvalidCascadeGuarded(ps, drec, message) ==
    LET id == message.receivedFrom
    IN markInvalidForAll(markInvalidMessageDelivery(ps, id, message),
                         penalisedForwarders(drec) \ {id}, message)

\* the end of rejectMessage: receivedFrom is marked, then every peer of
\* drec.peers is, receivedFrom too when it is one of them
markInvalidCascade(ps, drec, message) ==
    LET id == message.receivedFrom
    IN markInvalidForAll(markInvalidMessageDelivery(ps, id, message),
                         penalisedForwarders(drec), message)

rejectMessageOverwriting(ps, recs, q, message, reason, t) ==
    LET id == message.receivedFrom
        er == ensureRecord(recs, q, message.id, t)
        drec == er.records[message.id]
    IN IF signatureRejection(reason)
       THEN [ peerStats |-> markInvalidMessageDelivery(ps, id, message),
              records   |-> recs,
              queue     |-> q ]
       ELSE IF reason = ERR_TOPIC_VALIDATOR_IGNORE
       THEN [ peerStats |-> ps,
              records   |-> [er.records EXCEPT ![message.id].status = Ignored],
              queue     |-> er.queue ]
       ELSE [ peerStats |-> markInvalidCascade(ps, drec, message),
              records   |-> [er.records EXCEPT ![message.id].status = Invalid],
              queue     |-> er.queue ]

rejectMessage(ps, recs, q, message, reason, t) ==
    LET id == message.receivedFrom
        er == ensureRecord(recs, q, message.id, t)
        drec == er.records[message.id]
    IN IF signatureRejection(reason)
       THEN [ peerStats |-> markInvalidMessageDelivery(ps, id, message),
              records   |-> recs,
              queue     |-> q ]
       ELSE IF drec.status # Unknown THEN Outcome(ps, er)
       ELSE IF reason = ERR_TOPIC_VALIDATOR_IGNORE
       THEN [ peerStats |-> ps,
              records   |-> [er.records EXCEPT ![message.id].status = Ignored],
              queue     |-> er.queue ]
       ELSE [ peerStats |-> markInvalidCascade(ps, drec, message),
              records   |-> [er.records EXCEPT ![message.id].status = Invalid],
              queue     |-> er.queue ]

\* (mutation: an ignored message is treated like an invalid one)
duplicateByStatusIgnoredAsInvalid(ps, er, message, t) ==
    LET id == message.receivedFrom
        drec == er.records[message.id]
        added == [er.records EXCEPT ![message.id].peers = @ \cup {id}]
    IN CASE drec.status = Unknown ->
              [peerStats |-> ps, records |-> added, queue |-> er.queue]
         [] drec.status = Valid ->
              [ peerStats |-> markDuplicateMessageDelivery(ps, id, message, drec.validated, t),
                records   |-> added,
                queue     |-> er.queue ]
         [] OTHER ->
              Outcome(markInvalidMessageDelivery(ps, id, message), er)

\* the switch of duplicateMessage on the status of the record, for a peer
\* that is not in drec.peers
duplicateByStatus(ps, er, message, t) ==
    LET id == message.receivedFrom
        drec == er.records[message.id]
        added == [er.records EXCEPT ![message.id].peers = @ \cup {id}]
    IN CASE drec.status = Unknown ->
              [peerStats |-> ps, records |-> added, queue |-> er.queue]
         [] drec.status = Valid ->
              [ peerStats |-> markDuplicateMessageDelivery(ps, id, message, drec.validated, t),
                records   |-> added,
                queue     |-> er.queue ]
         [] drec.status = Invalid ->
              Outcome(markInvalidMessageDelivery(ps, id, message), er)
         [] OTHER -> Outcome(ps, er)

\* (mutation: the peer is added to drec.peers whatever the status is)
duplicateMessageTrackingAll(ps, recs, q, message, t) ==
    LET id == message.receivedFrom
        er == ensureRecord(recs, q, message.id, t)
        drec == er.records[message.id]
        out == duplicateByStatus(ps, er, message, t)
    IN IF id \in drec.peers THEN Outcome(ps, er)
       ELSE [out EXCEPT !.records[message.id].peers = @ \cup {id}]

\* peerStats, records and queue after duplicateMessage(message) at time t
duplicateMessage(ps, recs, q, message, t) ==
    LET id == message.receivedFrom
        er == ensureRecord(recs, q, message.id, t)
        drec == er.records[message.id]
    IN IF id \in drec.peers THEN Outcome(ps, er)
       ELSE duplicateByStatus(ps, er, message, t)

---------------------------------------------------------------------------
(* Actions: one per method of PeerScore, plus the passing of time.  last   *)
(* records the name of the method that ran.                                *)

\* the penalties addPenalty is called with: it takes any number, of either
\* sign
Penalties == {-1, 1}

\* the number of message hook calls pending at a time
MaxPending == 2

Invocation(hook, m, from, reason) ==
    [hook |-> hook, message |-> Message(m, from), reason |-> reason]

\* the uncapped counters are within the bounds of the model
withinBounds(ps) ==
    \A id \in DOMAIN ps :
        /\ ps[id].behaviourPenalty <= MaxBehaviourPenalty
        /\ \E penalty \in Penalties : ps[id].behaviourPenalty >= penalty
        /\ \A tp \in DOMAIN ps[id].topics :
             /\ ps[id].topics[tp].invalidMessageDeliveries <= MaxInvalidDeliveries
             /\ ps[id].topics[tp].meshFailurePenalty <= MaxFailurePenalty

Init ==
    /\ now = 1
    /\ peerStats = EmptyMap
    /\ peerIPs = EmptyMap
    /\ deliveryRecords = EmptyMap
    /\ queue = <<>>
    /\ last = "new"
    /\ running = FALSE
    /\ pending = {}
    /\ promises = EmptyMap
    /\ broken = EmptyMap

Tick ==
    /\ now < MaxTime
    /\ now' = now + 1
    /\ last' = "Tick"
    /\ UNCHANGED <<peerStats, peerIPs, deliveryRecords, queue>>
    /\ UNCHANGED otherVars

AddPeer(id, ips) ==
    /\ peerStats' = addPeer(peerStats, peerIPs, id, ips).peerStats
    /\ peerIPs' = addPeer(peerStats, peerIPs, id, ips).peerIPs
    /\ last' = "AddPeer"
    /\ UNCHANGED <<now, deliveryRecords, queue>>
    /\ UNCHANGED otherVars

RemovePeer(id) ==
    /\ withinBounds(removePeer(peerStats, peerIPs, id, now).peerStats)
    /\ peerStats' = removePeer(peerStats, peerIPs, id, now).peerStats
    /\ peerIPs' = removePeer(peerStats, peerIPs, id, now).peerIPs
    /\ last' = "RemovePeer"
    /\ UNCHANGED <<now, deliveryRecords, queue>>
    /\ UNCHANGED otherVars

AddPenalty(id, penalty) ==
    /\ withinBounds(addPenalty(peerStats, id, penalty))
    /\ peerStats' = addPenalty(peerStats, id, penalty)
    /\ last' = "AddPenalty"
    /\ UNCHANGED <<now, peerIPs, deliveryRecords, queue>>
    /\ UNCHANGED otherVars

Graft(id, topic) ==
    /\ peerStats' = graft(peerStats, id, topic, now)
    /\ last' = "Graft"
    /\ UNCHANGED <<now, peerIPs, deliveryRecords, queue>>
    /\ UNCHANGED otherVars

Prune(id, topic) ==
    /\ withinBounds(prune(peerStats, id, topic))
    /\ peerStats' = prune(peerStats, id, topic)
    /\ last' = "Prune"
    /\ UNCHANGED <<now, peerIPs, deliveryRecords, queue>>
    /\ UNCHANGED otherVars

RefreshScores ==
    /\ refreshIsExact(peerStats)
    /\ peerStats' = refreshScores(peerStats, peerIPs, now).peerStats
    /\ peerIPs' = refreshScores(peerStats, peerIPs, now).peerIPs
    /\ last' = "RefreshScores"
    /\ UNCHANGED <<now, deliveryRecords, queue>>
    /\ UNCHANGED otherVars

\* _updateIPs(), the connection manager returning getIPs[id] for peer id
UpdateIPs(getIPs) ==
    /\ peerIPs' = updateIPsOver(peerStats, peerIPs, getIPs, DOMAIN peerStats)
    /\ peerStats' = [id \in DOMAIN peerStats |-> [peerStats[id] EXCEPT !.ips = getIPs[id]]]
    /\ last' = "UpdateIPs"
    /\ UNCHANGED <<now, deliveryRecords, queue>>
    /\ UNCHANGED otherVars

ValidateMessage(m, from) ==
    /\ peerStats' = validateMessage(peerStats, deliveryRecords, queue, Message(m, from), now).peerStats
    /\ deliveryRecords' = validateMessage(peerStats, deliveryRecords, queue, Message(m, from), now).records
    /\ queue' = validateMessage(peerStats, deliveryRecords, queue, Message(m, from), now).queue
    /\ last' = "ValidateMessage"
    /\ UNCHANGED <<now, peerIPs>>
    /\ UNCHANGED otherVars

\* deliverMessage(message) is called: it runs up to its
\* `await this.msgId(message)` and is pending from then on
DeliverMessage(m, from) ==
    /\ Invocation("deliverMessage", m, from, "") \notin pending
    /\ Cardinality(pending) < MaxPending
    /\ withinBounds(deliverMessageBeforeId(peerStats, Message(m, from)))
    /\ peerStats' = deliverMessageBeforeId(peerStats, Message(m, from))
    /\ pending' = pending \cup {Invocation("deliverMessage", m, from, "")}
    /\ last' = "DeliverMessage"
    /\ UNCHANGED <<now, peerIPs, deliveryRecords, queue>>
    /\ UNCHANGED <<running, promises, broken>>

\* the message id of a pending deliverMessage(message) is there: the call
\* resumes and runs to its end, at the time it is then
DeliverMessageAfterId(m, from) ==
    /\ Invocation("deliverMessage", m, from, "") \in pending
    /\ withinBounds(deliverMessageAfterId(peerStats, deliveryRecords, queue, Message(m, from), now).peerStats)
    /\ peerStats' = deliverMessageAfterId(peerStats, deliveryRecords, queue, Message(m, from), now).peerStats
    /\ deliveryRecords' = deliverMessageAfterId(peerStats, deliveryRecords, queue, Message(m, from), now).records
    /\ queue' = deliverMessageAfterId(peerStats, deliveryRecords, queue, Message(m, from), now).queue
    /\ pending' = pending \ {Invocation("deliverMessage", m, from, "")}
    /\ last' = "DeliverMessageAfterId"
    /\ UNCHANGED <<now, peerIPs>>
    /\ UNCHANGED <<running, promises, broken>>

RejectMessage(m, from, reason) ==
    /\ withinBounds(rejectMessage(peerStats, deliveryRecords, queue, Message(m, from), reason, now).peerStats)
    /\ peerStats' = rejectMessage(peerStats, deliveryRecords, queue, Message(m, from), reason, now).peerStats
    /\ deliveryRecords' = rejectMessage(peerStats, deliveryRecords, queue, Message(m, from), reason, now).records
    /\ queue' = rejectMessage(peerStats, deliveryRecords, queue, Message(m, from), reason, now).queue
    /\ last' = "RejectMessage"
    /\ UNCHANGED <<now, peerIPs>>
    /\ UNCHANGED otherVars

DuplicateMessage(m, from) ==
    /\ withinBounds(duplicateMessage(peerStats, deliveryRecords, queue, Message(m, from), now).peerStats)
    /\ peerStats' = duplicateMessage(peerStats, deliveryRecords, queue, Message(m, from), now).peerStats
    /\ deliveryRecords' = duplicateMessage(peerStats, deliveryRecords, queue, Message(m, from), now).records
    /\ queue' = duplicateMessage(peerStats, deliveryRecords, queue, Message(m, from), now).queue
    /\ last' = "DuplicateMessage"
    /\ UNCHANGED <<now, peerIPs>>
    /\ UNCHANGED otherVars

\* deliveryRecords.gc(), as background() and the tests call it
Gc ==
    /\ deliveryRecords' = gc(deliveryRecords, queue, now).records
    /\ queue' = gc(deliveryRecords, queue, now).queue
    /\ last' = "Gc"
    /\ UNCHANGED <<now, peerStats, peerIPs>>
    /\ UNCHANGED otherVars

\* The message hooks called with a MessageIdFunction that fails: the hook
\* runs up to its await of this.msgId(message), and the rejection is what
\* its caller gets.  rejectMessage does not compute the id for a signature
\* reason.
ValidateMessageIdFails(m, from) ==
    /\ last' = "ValidateMessageIdFails"
    /\ UNCHANGED <<now, peerStats, peerIPs, deliveryRecords, queue>>
    /\ UNCHANGED otherVars

DeliverMessageIdFails(m, from) ==
    /\ withinBounds(deliverMessageBeforeId(peerStats, Message(m, from)))
    /\ peerStats' = deliverMessageBeforeId(peerStats, Message(m, from))
    /\ last' = "DeliverMessageIdFails"
    /\ UNCHANGED <<now, peerIPs, deliveryRecords, queue>>
    /\ UNCHANGED otherVars

RejectMessageIdFails(m, from, reason) ==
    /\ ~signatureRejection(reason)
    /\ last' = "RejectMessageIdFails"
    /\ UNCHANGED <<now, peerStats, peerIPs, deliveryRecords, queue>>
    /\ UNCHANGED otherVars

DuplicateMessageIdFails(m, from) ==
    /\ last' = "DuplicateMessageIdFails"
    /\ UNCHANGED <<now, peerStats, peerIPs, deliveryRecords, queue>>
    /\ UNCHANGED otherVars

\* background(): _refreshScores(), _updateIPs(), deliveryRecords.gc()
background(ps, pips, recs, q, getIPs, t) ==
    LET r == refreshScores(ps, pips, t)
        g == gc(recs, q, t)
    IN [ peerStats |-> [id \in DOMAIN r.peerStats |->
                          [r.peerStats[id] EXCEPT !.ips = getIPs[id]]],
         peerIPs   |-> updateIPsOver(r.peerStats, r.peerIPs, getIPs, DOMAIN r.peerStats),
         records   |-> g.records,
         queue     |-> g.queue ]

\* start(): running stands for this._backgroundInterval being set
Start ==
    /\ running' = TRUE
    /\ last' = "Start"
    /\ UNCHANGED <<now, peerStats, peerIPs, deliveryRecords, queue, pending, promises, broken>>

\* stop(): returns at once when no interval is set
Stop ==
    /\ IF ~running
         THEN UNCHANGED <<running, peerStats, peerIPs, deliveryRecords, queue>>
         ELSE /\ running' = FALSE
              /\ peerIPs' = EmptyMap
              /\ peerStats' = EmptyMap
              /\ deliveryRecords' = EmptyMap
              /\ queue' = <<>>
    /\ last' = "Stop"
    /\ UNCHANGED <<now, pending, promises, broken>>

\* the interval set by start() fires
Background(getIPs) ==
    /\ running
    /\ refreshIsExact(peerStats)
    /\ peerStats' = background(peerStats, peerIPs, deliveryRecords, queue, getIPs, now).peerStats
    /\ peerIPs' = background(peerStats, peerIPs, deliveryRecords, queue, getIPs, now).peerIPs
    /\ deliveryRecords' = background(peerStats, peerIPs, deliveryRecords, queue, getIPs, now).records
    /\ queue' = background(peerStats, peerIPs, deliveryRecords, queue, getIPs, now).queue
    /\ last' = "Background"
    /\ UNCHANGED <<now, running, pending, promises, broken>>

\* The message hooks as the asynchronous functions they are.  A call runs
\* up to `await this.msgId(message)` and is then pending; it resumes, once
\* the id is there, with the rest of its body, which has no further await.
\* MaxPending bounds the number of calls pending at a time.
Invocations ==
    { Invocation(hook, m, from, "") :
        hook \in {"validateMessage", "deliverMessage", "duplicateMessage"},
        m \in MsgIds, from \in PeerIds }
    \cup { Invocation("rejectMessage", m, from, ERR_TOPIC_VALIDATOR_REJECT) :
             m \in MsgIds, from \in PeerIds }

\* the statements of a hook before its await
beforeId(ps, call) ==
    IF call.hook = "deliverMessage" THEN deliverMessageBeforeId(ps, call.message)
    ELSE ps

\* the statements of a hook after its await, run at time t
afterId(ps, recs, q, call, t) ==
    CASE call.hook = "validateMessage" -> validateMessage(ps, recs, q, call.message, t)
      [] call.hook = "deliverMessage" -> deliverMessageAfterId(ps, recs, q, call.message, t)
      [] call.hook = "rejectMessage" -> rejectMessage(ps, recs, q, call.message, call.reason, t)
      [] call.hook = "duplicateMessage" -> duplicateMessage(ps, recs, q, call.message, t)

CallHook(call) ==
    /\ call \notin pending
    /\ Cardinality(pending) < MaxPending
    /\ withinBounds(beforeId(peerStats, call))
    /\ peerStats' = beforeId(peerStats, call)
    /\ pending' = pending \cup {call}
    /\ last' = "CallHook"
    /\ UNCHANGED <<now, peerIPs, deliveryRecords, queue, running, promises, broken>>

ResumeHook(call) ==
    /\ call \in pending
    /\ withinBounds(afterId(peerStats, deliveryRecords, queue, call, now).peerStats)
    /\ peerStats' = afterId(peerStats, deliveryRecords, queue, call, now).peerStats
    /\ deliveryRecords' = afterId(peerStats, deliveryRecords, queue, call, now).records
    /\ queue' = afterId(peerStats, deliveryRecords, queue, call, now).queue
    /\ pending' = pending \ {call}
    /\ last' = "ResumeHook"
    /\ UNCHANGED <<now, peerIPs, running, promises, broken>>

---------------------------------------------------------------------------
(* IWantTracer.  promises maps the string of a message id to a map from    *)
(* peer to the time its promise expires; broken is what the last           *)
(* getBrokenPromises() returned.  A message id is a byte array, and        *)
(* messageIdToString gives its base64 string.                              *)

TracerMsgIds == {<<1>>, <<2>>}

messageIdToString(msgId) ==
    CASE msgId = <<1>> -> "AQ=="
      [] msgId = <<2>> -> "Ag=="

GossipsubIWantFollowupTime == 1

\* the lists of message ids of an IWANT
IWantLists == {<<(<<1>>)>>, <<(<<2>>)>>, <<(<<1>>), (<<2>>)>>}

addPromiseExtending(pr, p, msgIds, ix, t) ==
    LET msgIdStr == messageIdToString(msgIds[ix])
        peers == IF msgIdStr \in DOMAIN pr THEN pr[msgIdStr] ELSE EmptyMap
    IN MapPut(pr, msgIdStr, MapPut(peers, p, t + GossipsubIWantFollowupTime))

\* addPromise(p, msgIds) at time t, ix being the index drawn at random
addPromise(pr, p, msgIds, ix, t) ==
    LET msgIdStr == messageIdToString(msgIds[ix])
        peers == IF msgIdStr \in DOMAIN pr THEN pr[msgIdStr] ELSE EmptyMap
    IN IF p \in DOMAIN peers THEN pr
       ELSE MapPut(pr, msgIdStr, MapPut(peers, p, t + GossipsubIWantFollowupTime))

brokenAtOrBefore(expire, t) == expire <= t

\* a promise that expires at time expire is broken at time t
brokenAt(expire, t) == expire < t

\* getBrokenPromises() at time t: the map it returns and the promises left
getBrokenPromises(pr, t) ==
    LET brokenOf(p) == {msgId \in DOMAIN pr :
                          p \in DOMAIN pr[msgId] /\ brokenAt(pr[msgId][p], t)}
        kept(msgId) == {p \in DOMAIN pr[msgId] : ~brokenAt(pr[msgId][p], t)}
    IN [ result   |-> [p \in {q \in PeerIds : brokenOf(q) # {}} |->
                         Cardinality(brokenOf(p))],
         promises |-> [msgId \in {x \in DOMAIN pr : kept(x) # {}} |->
                         [p \in kept(msgId) |-> pr[msgId][p]]] ]

\* IWantTracer.deliverMessage(msg)
tracerDeliverMessage(pr, msg) == MapDel(pr, messageIdToString(msg.id))

tracerKeepsPromisesNever(reason) == FALSE

\* the reasons for which IWantTracer.rejectMessage keeps the promises
tracerKeepsPromises(reason) ==
    reason \in {ERR_INVALID_SIGNATURE, ERR_MISSING_SIGNATURE}

\* IWantTracer.rejectMessage(msg, reason)
tracerRejectMessage(pr, msg, reason) ==
    IF tracerKeepsPromises(reason) THEN pr
    ELSE MapDel(pr, messageIdToString(msg.id))

AddPromise(p, msgIds) ==
    /\ \E ix \in 1..Len(msgIds) : promises' = addPromise(promises, p, msgIds, ix, now)
    /\ last' = "AddPromise"
    /\ UNCHANGED <<now, peerStats, peerIPs, deliveryRecords, queue, running, pending, broken>>

GetBrokenPromises ==
    /\ broken' = getBrokenPromises(promises, now).result
    /\ promises' = getBrokenPromises(promises, now).promises
    /\ last' = "GetBrokenPromises"
    /\ UNCHANGED <<now, peerStats, peerIPs, deliveryRecords, queue, running, pending>>

TracerDeliverMessage(m, from) ==
    /\ promises' = tracerDeliverMessage(promises, Message(m, from))
    /\ last' = "TracerDeliverMessage"
    /\ UNCHANGED <<now, peerStats, peerIPs, deliveryRecords, queue, running, pending, broken>>

TracerRejectMessage(m, from, reason) ==
    /\ promises' = tracerRejectMessage(promises, Message(m, from), reason)
    /\ last' = "TracerRejectMessage"
    /\ UNCHANGED <<now, peerStats, peerIPs, deliveryRecords, queue, running, pending, broken>>

TracerClear ==
    /\ promises' = EmptyMap
    /\ last' = "TracerClear"
    /\ UNCHANGED <<now, peerStats, peerIPs, deliveryRecords, queue, running, pending, broken>>

---------------------------------------------------------------------------
(* Specifications *)

\* the IP lists the connection manager may return
\* (no address, one, two, and the same address on two connections)
IPLists == {<<>>, <<"i1">>, <<"i2">>, <<"i1", "i2">>, <<"i1", "i1">>}

\* The IP index: peers come, go, are refreshed and change their addresses
NextIP ==
    \/ Tick
    \/ \E id \in PeerIds, ips \in IPLists : AddPeer(id, ips)
    \/ \E id \in PeerIds : RemovePeer(id)
    \/ RefreshScores
    \/ \E getIPs \in [DOMAIN peerStats -> IPLists] : UpdateIPs(getIPs)

SpecIP == Init /\ [][NextIP]_vars

\* Retention: peers are penalised, disconnect, reconnect and expire
RetIPLists == {<<>>, <<"i1">>, <<"i2">>}

NextRet ==
    \/ Tick
    \/ \E id \in PeerIds, ips \in RetIPLists : AddPeer(id, ips)
    \/ \E id \in PeerIds : RemovePeer(id)
    \/ \E id \in PeerIds : AddPenalty(id, 1)
    \/ RefreshScores

SpecRet == Init /\ [][NextRet]_vars

\* Message delivery: peers are added and grafted, messages are validated,
\* delivered, rejected and seen again (all within one clock value).  p1 is
\* the peer whose deliveries pass validation; a call of deliverMessage is
\* pending until its message id is there.
AllTopics == ScoredTopics \cup {"u1"}

NextMsg ==
    \/ \E id \in PeerIds : AddPeer(id, <<>>)
    \/ \E id \in PeerIds, topic \in AllTopics : Graft(id, topic)
    \/ \E m \in MsgIds, from \in PeerIds : ValidateMessage(m, from)
    \/ \E m \in MsgIds : DeliverMessage(m, "p1")
    \/ \E m \in MsgIds : DeliverMessageAfterId(m, "p1")
    \/ \E m \in MsgIds, from \in PeerIds, reason \in Reasons : RejectMessage(m, from, reason)
    \/ \E m \in MsgIds, from \in PeerIds : DuplicateMessage(m, from)

SpecMsg == Init /\ [][NextMsg]_vars

\* The delivery window: messages are delivered by p1, and seen again from
\* both peers, as time passes
NextWin ==
    \/ Tick
    \/ \E id \in PeerIds : AddPeer(id, <<>>)
    \/ \E id \in PeerIds : Graft(id, "t1")
    \/ \E m \in MsgIds : DeliverMessage(m, "p1")
    \/ \E m \in MsgIds : DeliverMessageAfterId(m, "p1")
    \/ \E m \in MsgIds, from \in PeerIds : DuplicateMessage(m, from)

SpecWin == Init /\ [][NextWin]_vars

\* The counters of one peer under the ingest hooks and the periodic decay.
\* The failure penalty is applied by removePeer, which treats every topic in
\* the mesh as prune does.
CntPeers == {"p1"}

NextCnt ==
    \/ Tick
    \/ \E id \in CntPeers : AddPeer(id, <<>>)
    \/ \E id \in CntPeers : RemovePeer(id)
    \/ \E id \in CntPeers : AddPenalty(id, 1)
    \/ \E id \in CntPeers : Graft(id, "t1")
    \/ \E m \in MsgIds, from \in CntPeers : DeliverMessage(m, from)
    \/ \E m \in MsgIds, from \in CntPeers : DeliverMessageAfterId(m, from)
    \/ \E m \in MsgIds, from \in CntPeers : RejectMessage(m, from, ERR_TOPIC_VALIDATOR_REJECT)
    \/ \E m \in MsgIds, from \in CntPeers : DuplicateMessage(m, from)
    \/ RefreshScores

SpecCnt == Init /\ [][NextCnt]_vars

\* The counters of one peer under every ingest hook, in any order, and the
\* periodic decay; addPenalty is called with penalties of either sign.
NextBnd ==
    \/ Tick
    \/ \E id \in CntPeers : AddPeer(id, <<>>)
    \/ \E id \in CntPeers : RemovePeer(id)
    \/ \E id \in CntPeers, penalty \in Penalties : AddPenalty(id, penalty)
    \/ \E id \in CntPeers : Graft(id, "t1")
    \/ \E id \in CntPeers : Prune(id, "t1")
    \/ \E m \in MsgIds, from \in CntPeers : ValidateMessage(m, from)
    \/ \E m \in MsgIds, from \in CntPeers : DeliverMessage(m, from)
    \/ \E m \in MsgIds, from \in CntPeers : DeliverMessageAfterId(m, from)
    \/ \E m \in MsgIds, from \in CntPeers : RejectMessage(m, from, ERR_TOPIC_VALIDATOR_REJECT)
    \/ \E m \in MsgIds, from \in CntPeers : DuplicateMessage(m, from)
    \/ RefreshScores

SpecBnd == Init /\ [][NextBnd]_vars

\* Hooks for peers the engine does not know: only p1 is ever added, and it
\* is unknown before addPeer and after a removePeer that drops it; the
\* deliveries that pass validation are those of p2, which is never known
UnkIPLists == {<<>>, <<"i1">>}

NextUnk ==
    \/ \E ips \in UnkIPLists : AddPeer("p1", ips)
    \/ \E id \in PeerIds : RemovePeer(id)
    \/ \E id \in PeerIds : AddPenalty(id, 1)
    \/ \E id \in PeerIds : Graft(id, "t1")
    \/ \E id \in PeerIds : Prune(id, "t1")
    \/ \E m \in MsgIds : DeliverMessage(m, "p2")
    \/ \E m \in MsgIds : DeliverMessageAfterId(m, "p2")
    \/ \E m \in MsgIds, from \in PeerIds :
          \E reason \in {ERR_INVALID_SIGNATURE, ERR_TOPIC_VALIDATOR_REJECT} :
              RejectMessage(m, from, reason)
    \/ \E m \in MsgIds, from \in PeerIds : DuplicateMessage(m, from)

SpecUnk == Init /\ [][NextUnk]_vars

\* Message hooks whose id computation may fail
NextFail ==
    \/ \E id \in PeerIds : AddPeer(id, <<>>)
    \/ \E id \in PeerIds : Graft(id, "t1")
    \/ \E m \in MsgIds, from \in PeerIds : DeliverMessage(m, from)
    \/ \E m \in MsgIds, from \in PeerIds : DeliverMessageAfterId(m, from)
    \/ \E m \in MsgIds, from \in PeerIds : DuplicateMessage(m, from)
    \/ \E m \in MsgIds, from \in PeerIds : ValidateMessageIdFails(m, from)
    \/ \E m \in MsgIds, from \in PeerIds : DeliverMessageIdFails(m, from)
    \/ \E m \in MsgIds, from \in PeerIds, reason \in Reasons :
          RejectMessageIdFails(m, from, reason)
    \/ \E m \in MsgIds, from \in PeerIds : DuplicateMessageIdFails(m, from)

SpecFail == Init /\ [][NextFail]_vars

\* The background ticker: started, firing, stopped
NextStop ==
    \/ Tick
    \/ \E id \in PeerIds, ips \in UnkIPLists : AddPeer(id, ips)
    \/ \E id \in PeerIds : RemovePeer(id)
    \/ \E m \in MsgIds, from \in PeerIds : ValidateMessage(m, from)
    \/ Start
    \/ Stop
    \/ \E getIPs \in [PeerIds -> UnkIPLists] : Background(getIPs)

SpecStop == Init /\ [][NextStop]_vars

\* The promise tracker
NextTracer ==
    \/ Tick
    \/ \E p \in PeerIds, msgIds \in IWantLists : AddPromise(p, msgIds)
    \/ GetBrokenPromises
    \/ \E m \in TracerMsgIds, from \in PeerIds : TracerDeliverMessage(m, from)
    \/ \E m \in TracerMsgIds, from \in PeerIds, reason \in Reasons :
          TracerRejectMessage(m, from, reason)
    \/ TracerClear

SpecTracer == Init /\ [][NextTracer]_vars

\* Mesh membership of one peer: grafted, activated by a refresh, pruned
NextAct ==
    \/ Tick
    \/ \E id \in CntPeers : AddPeer(id, <<>>)
    \/ \E id \in CntPeers : RemovePeer(id)
    \/ \E id \in CntPeers : Graft(id, "t1")
    \/ \E id \in CntPeers : Prune(id, "t1")
    \/ \E m \in MsgIds, from \in CntPeers : DeliverMessage(m, from)
    \/ \E m \in MsgIds, from \in CntPeers : DeliverMessageAfterId(m, from)
    \/ RefreshScores

SpecAct == Init /\ [][NextAct]_vars

\* One peer in and out of the mesh, with every hook that touches its
\* per-topic counters
NextPen ==
    \/ Tick
    \/ \E id \in CntPeers : AddPeer(id, <<>>)
    \/ \E id \in CntPeers : RemovePeer(id)
    \/ \E id \in CntPeers : Graft(id, "t1")
    \/ \E id \in CntPeers : Prune(id, "t1")
    \/ \E m \in MsgIds, from \in CntPeers : DeliverMessage(m, from)
    \/ \E m \in MsgIds, from \in CntPeers : DeliverMessageAfterId(m, from)
    \/ \E m \in MsgIds, from \in CntPeers : RejectMessage(m, from, ERR_TOPIC_VALIDATOR_REJECT)
    \/ \E m \in MsgIds, from \in CntPeers : DuplicateMessage(m, from)
    \/ RefreshScores

SpecPen == Init /\ [][NextPen]_vars

\* Decay: one connected peer collects every decaying counter, and
\* _refreshScores runs over it
NextDecay ==
    \/ Tick
    \/ \E id \in CntPeers : AddPeer(id, <<>>)
    \/ \E id \in CntPeers : AddPenalty(id, 1)
    \/ \E id \in CntPeers : Graft(id, "t1")
    \/ \E id \in CntPeers : Prune(id, "t1")
    \/ \E m \in MsgIds, from \in CntPeers : DeliverMessage(m, from)
    \/ \E m \in MsgIds, from \in CntPeers : DeliverMessageAfterId(m, from)
    \/ \E m \in MsgIds, from \in CntPeers : RejectMessage(m, from, ERR_TOPIC_VALIDATOR_REJECT)
    \/ RefreshScores

SpecDecay == Init /\ [][NextDecay]_vars

\* Delivery records: two messages are seen, reach a terminal status, expire
\* and are seen again; m2 is the one that may pass validation
RecMsgIds == {"m1", "m2"}

RecReasons == {ERR_TOPIC_VALIDATOR_IGNORE, ERR_TOPIC_VALIDATOR_REJECT}

NextRec ==
    \/ Tick
    \/ \E id \in CntPeers : AddPeer(id, <<>>)
    \/ \E m \in RecMsgIds, from \in CntPeers : ValidateMessage(m, from)
    \/ \E from \in CntPeers : DeliverMessage("m2", from)
    \/ \E from \in CntPeers : DeliverMessageAfterId("m2", from)
    \/ \E m \in RecMsgIds, from \in CntPeers, reason \in RecReasons :
          RejectMessage(m, from, reason)
    \/ \E m \in RecMsgIds, from \in CntPeers : DuplicateMessage(m, from)
    \/ Gc

SpecRec == Init /\ [][NextRec]_vars

\* Delivery records that expire and are made again.  Peer p1 sends the
\* messages that the validators judge, and only message m1 is ever found
\* invalid; the duplicates come from p2, which the score does not know.  So
\* invalidMessageDeliveries of p1 counts the times a record of m1 went from
\* Unknown to Invalid.
NextExp ==
    \/ Tick
    \/ \E id \in CntPeers : AddPeer(id, <<>>)
    \/ \E m \in RecMsgIds, from \in CntPeers : ValidateMessage(m, from)
    \/ \E from \in CntPeers : DeliverMessage("m2", from)
    \/ \E from \in CntPeers : DeliverMessageAfterId("m2", from)
    \/ \E from \in CntPeers, reason \in RecReasons : RejectMessage("m1", from, reason)
    \/ \E from \in CntPeers : RejectMessage("m2", from, ERR_TOPIC_VALIDATOR_IGNORE)
    \/ \E m \in RecMsgIds, from \in PeerIds \ CntPeers : DuplicateMessage(m, from)
    \/ Gc

SpecExp == Init /\ [][NextExp]_vars

\* Topics: hooks that name the scored topic and a topic that is not scored
NextTop ==
    \/ \E id \in CntPeers : AddPeer(id, <<>>)
    \/ \E id \in CntPeers, topic \in AllTopics : Graft(id, topic)
    \/ \E id \in CntPeers, topic \in AllTopics : Prune(id, topic)
    \/ \E m \in MsgIds, from \in CntPeers : DeliverMessage(m, from)
    \/ \E m \in MsgIds, from \in CntPeers : DeliverMessageAfterId(m, from)
    \/ \E m \in MsgIds, from \in CntPeers, reason \in Reasons : RejectMessage(m, from, reason)
    \/ \E m \in MsgIds, from \in CntPeers : DuplicateMessage(m, from)
    \/ RefreshScores

SpecTop == Init /\ [][NextTop]_vars

\* Disconnection: one peer with an address collects counters and is removed
NextRm ==
    \/ Tick
    \/ \E id \in CntPeers, ips \in UnkIPLists : AddPeer(id, ips)
    \/ \E id \in CntPeers : RemovePeer(id)
    \/ \E id \in CntPeers : AddPenalty(id, 1)
    \/ \E id \in CntPeers : Graft(id, "t1")
    \/ \E m \in MsgIds, from \in CntPeers : DeliverMessage(m, from)
    \/ \E m \in MsgIds, from \in CntPeers : DeliverMessageAfterId(m, from)
    \/ \E m \in MsgIds, from \in CntPeers : RejectMessage(m, from, ERR_TOPIC_VALIDATOR_REJECT)
    \/ RefreshScores

SpecRm == Init /\ [][NextRm]_vars

\* Repeated duplicates: p1 is the peer the message is first received from,
\* every peer sends it again, any number of times
NextDup ==
    \/ \E id \in PeerIds : AddPeer(id, <<>>)
    \/ \E id \in PeerIds : Graft(id, "t1")
    \/ \E m \in MsgIds : ValidateMessage(m, "p1")
    \/ \E m \in MsgIds : DeliverMessage(m, "p1")
    \/ \E m \in MsgIds : DeliverMessageAfterId(m, "p1")
    \/ \E m \in MsgIds : RejectMessage(m, "p1", ERR_TOPIC_VALIDATOR_REJECT)
    \/ \E m \in MsgIds, from \in PeerIds : DuplicateMessage(m, from)

SpecDup == Init /\ [][NextDup]_vars

\* Concurrently pending message hooks
NextAsync ==
    \/ \E id \in PeerIds : AddPeer(id, <<>>)
    \/ \E id \in PeerIds : Graft(id, "t1")
    \/ \E call \in Invocations : CallHook(call)
    \/ \E call \in Invocations : ResumeHook(call)

SpecAsync == Init /\ [][NextAsync]_vars

---------------------------------------------------------------------------
(* Properties *)

\* id is in the bucket of ip
tracked(pips, id, ip) == ip \in DOMAIN pips /\ id \in pips[ip]

\* id is in no bucket of the IP index
untracked(pips, id) == \A ip \in DOMAIN pips : id \notin pips[ip]

\* id is a retained (disconnected) peer
retained(ps, id) == id \in DOMAIN ps /\ ~ps[id].connected

\* the step is a call of the named method (last is set by nothing else)
calls(method) == last' = method

\* C1: IP index consistency.  For every peer p of peerStats and every ip, p
\* is in peerIPs[ip] iff ip is in peerStats[p].ips, and peerIPs has no empty
\* bucket.  (Violated: addPeer for a known id forgets the old ips list.)
C1_IPIndexConsistent ==
    /\ \A p \in DOMAIN peerStats : \A ip \in IPAddrs :
         tracked(peerIPs, p, ip) <=> ip \in Range(peerStats[p].ips)
    /\ \A ip \in DOMAIN peerIPs : peerIPs[ip] # {}

\* what C2 says of a removePeer that retains p, and of a refresh that
\* finds p retained after its expiry
retentionTiming(p) ==
    /\ (calls("RemovePeer") /\ RemovePeer(p) /\ p \in DOMAIN peerStats
          /\ score(peerStats, peerIPs, p) <= 0)
       => /\ retained(peerStats', p)
          /\ peerStats'[p].expire = now + params.retainScore
    /\ (calls("RefreshScores") /\ RefreshScores
          /\ retained(peerStats, p) /\ now > peerStats[p].expire)
       => /\ p \notin DOMAIN peerStats'
          /\ untracked(peerIPs', p)
          /\ score(peerStats', peerIPs', p) = 0

\* C2: retention.  A removePeer(p) at time t0 that finds score(p) <= 0 leaves
\* p in peerStats, disconnected, with expire = t0 + retainScore; a refresh at
\* a time t <= expire keeps p and leaves score(p) unchanged; the refresh at a
\* time t > expire deletes p from peerStats and from every bucket of peerIPs,
\* and score(p) is 0 afterwards.  (Violated: the expiry branch of
\* _refreshScores removes p only from the buckets of pstats.ips, which
\* misses the addresses a second addPeer(p) has forgotten.)
C2_Retention ==
    [][\A p \in PeerIds :
         /\ retentionTiming(p)
         /\ (calls("RefreshScores") /\ RefreshScores
               /\ retained(peerStats, p) /\ now <= peerStats[p].expire)
            => /\ p \in DOMAIN peerStats'
               /\ score(peerStats', peerIPs', p) = score(peerStats, peerIPs, p)
      ]_vars

\* C3: a reconnect does not reset a retained score.  If addPeer(p) finds p
\* retained and its retention period not over, behaviourPenalty and the
\* per-topic invalidMessageDeliveries and meshFailurePenalty of p are not
\* lower afterwards, and score(p) is not higher.  (Violated: addPeer stores a
\* new PeerStats.)
C3_NoResetByReconnect ==
    [][\A p \in PeerIds :
         ( /\ calls("AddPeer")
           /\ \E ips \in RetIPLists : AddPeer(p, ips)
           /\ retained(peerStats, p)
           /\ now <= peerStats[p].expire )
         => /\ peerStats'[p].behaviourPenalty >= peerStats[p].behaviourPenalty
            /\ \A tp \in DOMAIN peerStats[p].topics :
                 /\ tp \in DOMAIN peerStats'[p].topics
                 /\ peerStats'[p].topics[tp].invalidMessageDeliveries
                      >= peerStats[p].topics[tp].invalidMessageDeliveries
                 /\ peerStats'[p].topics[tp].meshFailurePenalty
                      >= peerStats[p].topics[tp].meshFailurePenalty
            /\ score(peerStats', peerIPs', p) <= score(peerStats, peerIPs, p)
      ]_vars

\* C4: removePeer(p) for a known peer with score(p) > 0 drops p at once: p
\* is in no bucket of peerIPs and not in peerStats afterwards, no bucket is
\* empty and score(p) = 0; with score(p) <= 0 the peer stays in peerStats.
\* (Violated: a bucket that addPeer forgot, see C1, still holds p.)
C4_ImmediateDrop ==
    [][\A p \in PeerIds :
         (calls("RemovePeer") /\ RemovePeer(p) /\ p \in DOMAIN peerStats)
         => IF score(peerStats, peerIPs, p) > 0
            THEN /\ p \notin DOMAIN peerStats'
                 /\ untracked(peerIPs', p)
                 /\ \A ip \in DOMAIN peerIPs' : peerIPs'[ip] # {}
                 /\ score(peerStats', peerIPs', p) = 0
            ELSE p \in DOMAIN peerStats'
      ]_vars

\* the TopicStats of (id, topic), a new one when there is none
topicStats(ps, id, topic) ==
    IF id \in DOMAIN ps /\ topic \in DOMAIN ps[id].topics
    THEN ps[id].topics[topic]
    ELSE createTopicStats

\* the counters of every known peer: behaviourPenalty and the four decayed
\* counters of every topic
countersOf(ps) ==
    [id \in DOMAIN ps |->
       [ behaviourPenalty |-> ps[id].behaviourPenalty,
         topics |-> [tp \in AllTopics |->
            LET ts == topicStats(ps, id, tp)
            IN <<ts.firstMessageDeliveries, ts.meshMessageDeliveries,
                 ts.meshFailurePenalty, ts.invalidMessageDeliveries>>] ]]

\* the record of message id m has the given status
hasStatus(recs, m, status) == m \in DOMAIN recs /\ recs[m].status = status

\* no terminal call was made for message id m yet
notTerminated(recs, m) == m \notin DOMAIN recs \/ recs[m].status = Unknown

\* the forwarders recorded for message id m
forwarders(recs, m) == IF m \in DOMAIN recs THEN recs[m].peers ELSE {}

SignatureReasons == {ERR_MISSING_SIGNATURE, ERR_INVALID_SIGNATURE}

\* C5: a second terminal call is a no-op.  Once the record of message id m
\* is Valid, Invalid or Ignored, a further deliverMessage, or rejectMessage
\* with a reason other than a signature error, changes neither the records
\* nor any counter of any peer, neither when it is called nor when it resumes
\* with the message id.  (Violated: deliverMessage marks the first delivery
\* when it is called, before it looks at the record.)
C5_SecondTerminalNoOp ==
    [][\A m \in MsgIds, from \in PeerIds :
         ( /\ m \in DOMAIN deliveryRecords
           /\ deliveryRecords[m].status # Unknown
           /\ \/ calls("DeliverMessage") /\ DeliverMessage(m, from)
              \/ calls("DeliverMessageAfterId") /\ DeliverMessageAfterId(m, from)
              \/ /\ calls("RejectMessage")
                 /\ \E reason \in Reasons \ SignatureReasons :
                       RejectMessage(m, from, reason) )
         => /\ deliveryRecords' = deliveryRecords
            /\ countersOf(peerStats') = countersOf(peerStats)
      ]_vars

\* the four decayed counters of every topic and behaviourPenalty are >= 0,
\* and the two capped counters are at most their caps, for every peer of ps
counterBounds(ps) ==
    \A id \in DOMAIN ps :
        /\ ps[id].behaviourPenalty >= 0
        /\ \A tp \in DOMAIN ps[id].topics :
             LET ts == ps[id].topics[tp]
             IN /\ ts.firstMessageDeliveries >= 0
                /\ ts.meshMessageDeliveries >= 0
                /\ ts.meshFailurePenalty >= 0
                /\ ts.invalidMessageDeliveries >= 0
                /\ tp \in DOMAIN params.topics
                /\ ts.firstMessageDeliveries <= params.topics[tp].firstMessageDeliveriesCap
                /\ ts.meshMessageDeliveries <= params.topics[tp].meshMessageDeliveriesCap

\* if the step is an addPenalty, it is one with a penalty >= 0
penaltyNonNegative ==
    calls("AddPenalty")
        => \E id \in PeerIds, penalty \in Penalties : penalty >= 0 /\ AddPenalty(id, penalty)

\* C6 as stated: counter bounds.  After any sequence of ingest hooks and
\* refreshes, for every peer and topic the four decayed counters and
\* behaviourPenalty are >= 0, firstMessageDeliveries is at most
\* firstMessageDeliveriesCap and meshMessageDeliveries at most
\* meshMessageDeliveriesCap.  (Violated: addPenalty adds any penalty, a
\* negative one too, so behaviourPenalty can be below 0.)
C6_CounterBounds == counterBounds(peerStats)

\* C6 (amended): counter bounds.  After any sequence of ingest hooks and
\* refreshes in which every addPenalty has a penalty >= 0, for every peer
\* and topic the four decayed counters and behaviourPenalty are >= 0,
\* firstMessageDeliveries is at most firstMessageDeliveriesCap and
\* meshMessageDeliveries at most meshMessageDeliveriesCap.  Stated step by
\* step: the bounds hold after construction, and every hook or refresh that
\* starts within the bounds ends within them, unless it is an addPenalty
\* that only a negative penalty explains.
C6_CounterBoundsOfNonNegativePenalties ==
    /\ counterBounds(peerStats)
    /\ [][(counterBounds(peerStats) /\ penaltyNonNegative)
            => counterBounds(peerStats')]_vars

\* C6 witness: a delivery has left a peer with both capped counters at their
\* caps, next to a failure penalty, an invalid delivery and a behaviour
\* penalty
C6_Witness ==
    /\ last = "DeliverMessage"
    /\ \E id \in DOMAIN peerStats : \E tp \in DOMAIN peerStats[id].topics :
         LET ts == peerStats[id].topics[tp]
         IN /\ ts.firstMessageDeliveries = params.topics[tp].firstMessageDeliveriesCap
            /\ ts.meshMessageDeliveries = params.topics[tp].meshMessageDeliveriesCap
            /\ ts.meshFailurePenalty > 0
            /\ ts.invalidMessageDeliveries > 0
            /\ peerStats[id].behaviourPenalty > 0

\* C7: duplicate window.  When duplicateMessage from a known peer p, in the
\* mesh of scored topic t1 and not yet a forwarder of the message, finds the
\* record Valid with validated time t0, meshMessageDeliveries of (p, t1) is
\* incremented (and clamped to its cap) if now <= t0 +
\* meshMessageDeliveriesWindow, and unchanged otherwise.
C7_DuplicateWindow ==
    [][\A m \in MsgIds, p \in PeerIds :
         ( /\ calls("DuplicateMessage")
           /\ DuplicateMessage(m, p)
           /\ hasStatus(deliveryRecords, m, Valid)
           /\ p \notin deliveryRecords[m].peers
           /\ p \in DOMAIN peerStats
           /\ topicStats(peerStats, p, "t1").inMesh )
         => LET before == topicStats(peerStats, p, "t1").meshMessageDeliveries
                after == topicStats(peerStats', p, "t1").meshMessageDeliveries
                window == params.topics["t1"].meshMessageDeliveriesWindow
                cap == params.topics["t1"].meshMessageDeliveriesCap
            IN IF now <= deliveryRecords[m].validated + window
               THEN after = Min(before + 1, cap)
               ELSE after = before
      ]_vars

\* C7 witness: a duplicate has arrived at the last moment of the window,
\* from a mesh peer that never delivered first, and was credited
C7_Witness ==
    /\ last = "DuplicateMessage"
    /\ \E m \in DOMAIN deliveryRecords : \E p \in deliveryRecords[m].peers :
         /\ deliveryRecords[m].status = Valid
         /\ now = deliveryRecords[m].validated
                    + params.topics["t1"].meshMessageDeliveriesWindow
         /\ topicStats(peerStats, p, "t1").inMesh
         /\ topicStats(peerStats, p, "t1").graftTime = now
         /\ topicStats(peerStats, p, "t1").firstMessageDeliveries = 0
         /\ topicStats(peerStats, p, "t1").meshMessageDeliveries = 1

\* C8: no double count.  MsgIds holds one message id and nothing decays in
\* SpecMsg, so meshMessageDeliveries of (p, t1) is the credit p got on
\* account of that message.  The first terminal deliverMessage credits no
\* peer more than once, neither at its call nor when it resumes, and a duplicateMessage from a peer that has its
\* credit gives no more.  (Violated: deliverMessage does not record
\* receivedFrom as a forwarder, so its later duplicate is credited again.)
C8_NoDoubleCount ==
    [][\A m \in MsgIds, p \in PeerIds :
         /\ (calls("DuplicateMessage") /\ DuplicateMessage(m, p)
               /\ topicStats(peerStats, p, "t1").meshMessageDeliveries >= 1)
            => topicStats(peerStats', p, "t1").meshMessageDeliveries
                 = topicStats(peerStats, p, "t1").meshMessageDeliveries
         /\ ( \/ /\ calls("DeliverMessage")
                  /\ \E from \in PeerIds : DeliverMessage(m, from)
               \/ /\ calls("DeliverMessageAfterId")
                  /\ \E from \in PeerIds : DeliverMessageAfterId(m, from)
                  /\ notTerminated(deliveryRecords, m) )
            => topicStats(peerStats', p, "t1").meshMessageDeliveries
                 <= topicStats(peerStats, p, "t1").meshMessageDeliveries + 1
      ]_vars

\* C9: invalidation cascade.  rejectMessage with a reason other than a
\* signature error and ERR_TOPIC_VALIDATOR_IGNORE, on a record that is
\* Unknown, makes the record Invalid and increments
\* invalidMessageDeliveries on scored topic t1 once for receivedFrom and once
\* for every forwarder in record.peers (known peers only; no TopicStats for
\* the unscored topic); a duplicateMessage from a known peer that is not a
\* forwarder, after the rejection, increments that peer's counter by one.
C9_InvalidationCascade ==
    [][\A m \in MsgIds, from \in PeerIds :
         /\ (calls("RejectMessage")
               /\ (\E reason \in Reasons \ (SignatureReasons \cup {ERR_TOPIC_VALIDATOR_IGNORE}) :
                      RejectMessage(m, from, reason))
               /\ notTerminated(deliveryRecords, m))
            => /\ hasStatus(deliveryRecords', m, Invalid)
               /\ DOMAIN peerStats' = DOMAIN peerStats
               /\ \A p \in DOMAIN peerStats :
                    /\ topicStats(peerStats', p, "t1").invalidMessageDeliveries
                         = topicStats(peerStats, p, "t1").invalidMessageDeliveries
                           + (IF p = from THEN 1 ELSE 0)
                           + (IF p \in forwarders(deliveryRecords, m) THEN 1 ELSE 0)
                    /\ "u1" \notin DOMAIN peerStats'[p].topics
         /\ (calls("DuplicateMessage") /\ DuplicateMessage(m, from)
               /\ hasStatus(deliveryRecords, m, Invalid)
               /\ from \notin deliveryRecords[m].peers
               /\ from \in DOMAIN peerStats)
            => topicStats(peerStats', from, "t1").invalidMessageDeliveries
                 = topicStats(peerStats, from, "t1").invalidMessageDeliveries + 1
      ]_vars

\* C9 witness: a message was rejected after another known peer had
\* forwarded it, and both peers carry one invalid delivery
C9_Witness ==
    /\ last = "RejectMessage"
    /\ \E m \in DOMAIN deliveryRecords :
         /\ deliveryRecords[m].status = Invalid
         /\ deliveryRecords[m].peers = {"p2"}
         /\ PeerIds \subseteq DOMAIN peerStats
         /\ \A p \in PeerIds :
              topicStats(peerStats, p, "t1").invalidMessageDeliveries = 1

\* C10: ignored messages never affect scores.  rejectMessage with
\* ERR_TOPIC_VALIDATOR_IGNORE on a record that is Unknown sets the status to
\* Ignored and changes no counter of any peer and no forwarder set; a later
\* duplicateMessage for that message id changes no counter and leaves the
\* record (its peers too) as it is.
C10_IgnoredNeverScores ==
    [][\A m \in MsgIds, from \in PeerIds :
         /\ (calls("RejectMessage")
               /\ RejectMessage(m, from, ERR_TOPIC_VALIDATOR_IGNORE)
               /\ notTerminated(deliveryRecords, m))
            => /\ hasStatus(deliveryRecords', m, Ignored)
               /\ deliveryRecords'[m].peers = forwarders(deliveryRecords, m)
               /\ countersOf(peerStats') = countersOf(peerStats)
         /\ (calls("DuplicateMessage") /\ DuplicateMessage(m, from)
               /\ hasStatus(deliveryRecords, m, Ignored))
            => /\ deliveryRecords' = deliveryRecords
               /\ countersOf(peerStats') = countersOf(peerStats)
      ]_vars

\* C10 witness: a duplicate of an ignored message has arrived from a known
\* peer in the mesh; it is no forwarder of the record, and no known peer
\* carries a penalty
C10_Witness ==
    /\ last = "DuplicateMessage"
    /\ \E m \in DOMAIN deliveryRecords :
         /\ deliveryRecords[m].status = Ignored
         /\ deliveryRecords[m].peers = {}
    /\ PeerIds \subseteq DOMAIN peerStats
    /\ \A p \in PeerIds :
         /\ topicStats(peerStats, p, "t1").inMesh
         /\ topicStats(peerStats, p, "t1").invalidMessageDeliveries = 0

\* C11: signature rejections never touch delivery records.  rejectMessage
\* with ERR_MISSING_SIGNATURE or ERR_INVALID_SIGNATURE adds one to
\* invalidMessageDeliveries of receivedFrom on the scored topic t1 (none for
\* the unscored topic, nothing for an unknown peer) and changes nothing
\* else: records and queue are as before (no record is created, status and
\* peers of an existing one are kept, so the next terminal call is still the
\* first), and every other peer and the IP index are unchanged.
C11_SignatureRejection ==
    [][\A m \in MsgIds, from \in PeerIds :
         ( /\ calls("RejectMessage")
           /\ \E reason \in SignatureReasons : RejectMessage(m, from, reason) )
         => /\ deliveryRecords' = deliveryRecords
            /\ queue' = queue
            /\ peerIPs' = peerIPs
            /\ DOMAIN peerStats' = DOMAIN peerStats
            /\ \A p \in DOMAIN peerStats \ {from} : peerStats'[p] = peerStats[p]
            /\ from \in DOMAIN peerStats =>
                 /\ peerStats'[from] =
                      [ensureTopicStats(peerStats[from], "t1") EXCEPT
                         !.topics["t1"].invalidMessageDeliveries = @ + 1]
                 /\ "u1" \notin DOMAIN peerStats'[from].topics
      ]_vars

\* C11 witness: a message was rejected for its signature: its sender, in
\* the mesh, carries an invalid delivery and there is no delivery record
C11_Witness ==
    /\ last = "RejectMessage"
    /\ deliveryRecords = EmptyMap
    /\ \E p \in DOMAIN peerStats :
         /\ topicStats(peerStats, p, "t1").inMesh
         /\ topicStats(peerStats, p, "t1").invalidMessageDeliveries = 1

\* the step is a peer hook called with id
peerHookFor(id) ==
    \/ calls("RemovePeer") /\ RemovePeer(id)
    \/ calls("AddPenalty") /\ AddPenalty(id, 1)
    \/ calls("Graft") /\ Graft(id, "t1")
    \/ calls("Prune") /\ Prune(id, "t1")

\* the step is one of a message hook for message id m received from id
messageHookFrom(m, id) ==
    \/ calls("DeliverMessage") /\ DeliverMessage(m, id)
    \/ calls("DeliverMessageAfterId") /\ DeliverMessageAfterId(m, id)
    \/ calls("RejectMessage") /\ \E reason \in Reasons : RejectMessage(m, id, reason)
    \/ calls("DuplicateMessage") /\ DuplicateMessage(m, id)

\* C12 as stated: for an id that is not in peerStats, removePeer, graft,
\* prune, addPenalty and the message hooks with that id as receivedFrom
\* leave peerStats and peerIPs unchanged, and score(id) is 0 before and
\* after.  (Violated: deliverMessage and rejectMessage from an unknown peer
\* still credit or penalise the known forwarders of the record.)
C12_UnknownPeerNoOp ==
    [][\A id \in PeerIds : \A m \in MsgIds :
         (id \notin DOMAIN peerStats /\ (peerHookFor(id) \/ messageHookFrom(m, id)))
         => /\ peerStats' = peerStats
            /\ peerIPs' = peerIPs
            /\ score(peerStats, peerIPs, id) = 0
            /\ score(peerStats', peerIPs', id) = 0
      ]_vars

\* C12 (amended): for an id that is not in peerStats, removePeer, graft,
\* prune and addPenalty leave peerStats and peerIPs unchanged; a message
\* hook with that id as receivedFrom creates no PeerStats for it, leaves
\* peerIPs unchanged and changes the PeerStats of no peer other than the
\* forwarders in record.peers (which deliverMessage credits and
\* rejectMessage penalises), so that peerStats is unchanged when the record
\* lists no known forwarder; score(id) is 0 before and after.
C12_UnknownPeer ==
    [][\A id \in PeerIds : \A m \in MsgIds :
         /\ (id \notin DOMAIN peerStats /\ peerHookFor(id))
            => /\ peerStats' = peerStats
               /\ peerIPs' = peerIPs
               /\ score(peerStats, peerIPs, id) = 0
               /\ score(peerStats', peerIPs', id) = 0
         /\ (id \notin DOMAIN peerStats /\ messageHookFrom(m, id))
            => /\ DOMAIN peerStats' = DOMAIN peerStats
               /\ peerIPs' = peerIPs
               /\ \A p \in DOMAIN peerStats \ forwarders(deliveryRecords, m) :
                    peerStats'[p] = peerStats[p]
               /\ score(peerStats, peerIPs, id) = 0
               /\ score(peerStats', peerIPs', id) = 0
      ]_vars

\* C12 witness: p2, which was never added, has delivered a message: the
\* record is Valid, p2 has no PeerStats and the known peer p1 got no credit
C12_Witness ==
    /\ last = "DeliverMessageAfterId"
    /\ "p2" \notin DOMAIN peerStats
    /\ "p1" \in DOMAIN peerStats
    /\ topicStats(peerStats, "p1", "t1").firstMessageDeliveries = 0
    /\ \E m \in DOMAIN deliveryRecords : deliveryRecords[m].status = Valid

\* the step is a message hook whose id computation fails
idComputationFails(m, from) ==
    \/ calls("ValidateMessageIdFails") /\ ValidateMessageIdFails(m, from)
    \/ calls("DeliverMessageIdFails") /\ DeliverMessageIdFails(m, from)
    \/ calls("RejectMessageIdFails")
         /\ \E reason \in Reasons : RejectMessageIdFails(m, from, reason)
    \/ calls("DuplicateMessageIdFails") /\ DuplicateMessageIdFails(m, from)

\* C13: an id computation failure mutates nothing.  When the
\* MessageIdFunction fails during validateMessage, deliverMessage,
\* rejectMessage or duplicateMessage, peerStats, peerIPs and the delivery
\* records are as they were before the hook was invoked.  (Violated:
\* deliverMessage has marked the first delivery before it awaits the id.)
C13_IdFailureMutatesNothing ==
    [][\A m \in MsgIds, from \in PeerIds :
         idComputationFails(m, from)
         => /\ peerStats' = peerStats
            /\ peerIPs' = peerIPs
            /\ deliveryRecords' = deliveryRecords
            /\ queue' = queue
      ]_vars

\* C14: single critical section after the suspension point.  With any
\* number of validateMessage, deliverMessage, rejectMessage and
\* duplicateMessage calls pending at their msgId await, a hook mutates
\* state only after its id is computed: the part of a call that runs
\* before the await changes none of peerStats, peerIPs and the delivery
\* records, so that all its mutations are those of its one resumption.
\* (Violated: deliverMessage marks the first delivery before the await, and
\* other hooks resume between that and the rest of the call.)
C14_SingleCriticalSection ==
    [][\A call \in Invocations :
         calls("CallHook") /\ CallHook(call)
         => /\ peerStats' = peerStats
            /\ peerIPs' = peerIPs
            /\ deliveryRecords' = deliveryRecords
            /\ queue' = queue
      ]_vars

\* C15: stop clears everything.  After any call of stop(), whatever hooks
\* came before it and whether or not start() had been called, the
\* background interval is cancelled and peerStats, peerIPs and the delivery
\* records are empty.  (Violated: stop() without a running interval
\* returns before it clears anything.)
C15_StopClearsEverything ==
    last = "Stop"
    => /\ ~running
       /\ peerStats = EmptyMap
       /\ peerIPs = EmptyMap
       /\ deliveryRecords = EmptyMap
       /\ queue = <<>>

\* the promises of every message id other than msgIdStr are as they were
otherPromisesKept(msgIdStr) ==
    /\ DOMAIN promises' \subseteq DOMAIN promises
    /\ \A other \in (DOMAIN promises) \ {msgIdStr} :
         other \in DOMAIN promises' /\ promises'[other] = promises[other]

\* C16: the release rule of the promise tracker.  deliverMessage(msg), and
\* rejectMessage(msg, reason) with a reason other than
\* ERR_MISSING_SIGNATURE and ERR_INVALID_SIGNATURE, delete the promises of
\* every peer for the id of msg and leave those of all other ids as they
\* were; rejectMessage with one of the two signature reasons leaves the
\* whole promise map as it was.
C16_ReleaseRule ==
    [][\A m \in TracerMsgIds, from \in PeerIds :
         /\ ( calls("TracerDeliverMessage") /\ TracerDeliverMessage(m, from) )
            => /\ messageIdToString(m) \notin DOMAIN promises'
               /\ otherPromisesKept(messageIdToString(m))
         /\ \A reason \in Reasons :
              ( calls("TracerRejectMessage") /\ TracerRejectMessage(m, from, reason) )
              => IF reason \in SignatureReasons
                 THEN promises' = promises
                 ELSE /\ messageIdToString(m) \notin DOMAIN promises'
                      /\ otherPromisesKept(messageIdToString(m))
      ]_vars

\* a signature rejection has left a broken promise in place, which the
\* next getBrokenPromises() can report
C16_Witness ==
    /\ last = "TracerRejectMessage"
    /\ \E msgIdStr \in DOMAIN promises : \E p \in DOMAIN promises[msgIdStr] :
         promises[msgIdStr][p] < now
    /\ Cardinality(DOMAIN promises) = 1

\* the tracked (msgId, peer) entries
entries(pr) == {e \in (DOMAIN pr) \X PeerIds : e[2] \in DOMAIN pr[e[1]]}

expireAt(pr, e) == pr[e[1]][e[2]]

\* C17: a broken promise is counted exactly once.  getBrokenPromises() at
\* time now returns, for each peer, the number of tracked (msgId, peer)
\* entries with expireAt < now, deletes exactly those entries and keeps
\* every entry with expireAt >= now, with its expireAt; so a reported
\* promise is gone from the tracker, and a second call with nothing in
\* between reports nothing.
C17_BrokenCountedOnce ==
    [][( calls("GetBrokenPromises") /\ GetBrokenPromises )
       => /\ \A p \in PeerIds :
               LET n == Cardinality({e \in entries(promises) :
                                       e[2] = p /\ expireAt(promises, e) < now})
               IN IF n = 0 THEN p \notin DOMAIN broken'
                  ELSE p \in DOMAIN broken' /\ broken'[p] = n
          /\ entries(promises') =
               {e \in entries(promises) : expireAt(promises, e) >= now}
          /\ \A e \in entries(promises') :
               expireAt(promises', e) = expireAt(promises, e)
          /\ \A msgIdStr \in DOMAIN promises' : DOMAIN promises'[msgIdStr] # {}
          /\ ( last = "GetBrokenPromises" => broken' = EmptyMap )
      ]_vars

\* a call has reported two broken promises of one peer and one of the
\* other, and has kept a promise that was not yet broken
C17_Witness ==
    /\ last = "GetBrokenPromises"
    /\ DOMAIN broken = PeerIds
    /\ \E p \in PeerIds : broken[p] = 2
    /\ entries(promises) # {}

\* C18: promise uniqueness.  The tracker holds at most one entry per
\* (msgId, peer), the strings of distinct message ids being distinct;
\* addPromise(peer, msgIds) with a list that is not empty adds an entry for
\* exactly one msgId of the list, with expireAt = now +
\* GossipsubIWantFollowupTime, only if there is no entry for that (msgId,
\* peer); when there is one its expireAt stays, and so does every other
\* entry.
C18_PromiseUniqueness ==
    [][\A p \in PeerIds, msgIds \in IWantLists :
         ( calls("AddPromise") /\ AddPromise(p, msgIds) )
         => /\ \A a, b \in TracerMsgIds :
                 messageIdToString(a) = messageIdToString(b) => a = b
            /\ \E ix \in 1..Len(msgIds) :
                 LET e == <<messageIdToString(msgIds[ix]), p>>
                 IN IF e \in entries(promises)
                    THEN promises' = promises
                    ELSE /\ entries(promises') = entries(promises) \cup {e}
                         /\ expireAt(promises', e) = now + GossipsubIWantFollowupTime
                         /\ \A old \in entries(promises) :
                              expireAt(promises', old) = expireAt(promises, old)
      ]_vars

\* an IWANT was repeated for a promise that is already tracked: no entry
\* has the deadline this addPromise would have set
C18_Witness ==
    /\ last = "AddPromise"
    /\ entries(promises) # {}
    /\ \A e \in entries(promises) :
         expireAt(promises, e) < now + GossipsubIWantFollowupTime

\* C19: disconnected peers are not decayed.  A _refreshScores run leaves
\* the per-topic counters, meshTime, meshMessageDeliveriesActive and
\* behaviourPenalty (the whole PeerStats) of a peer that is not connected
\* as they were; all it can do to such a peer is delete it, which it does
\* exactly when now > expire.
C19_DisconnectedNotDecayed ==
    [][\A p \in CntPeers :
         ( calls("RefreshScores") /\ RefreshScores /\ retained(peerStats, p) )
         => IF now > peerStats[p].expire
            THEN p \notin DOMAIN peerStats'
            ELSE p \in DOMAIN peerStats' /\ peerStats'[p] = peerStats[p]
      ]_vars

\* _refreshScores has run over a retained peer that has a behaviour
\* penalty and a per-topic penalty to decay, and has kept it
C19_Witness ==
    /\ last = "RefreshScores"
    /\ \E p \in CntPeers :
         /\ retained(peerStats, p)
         /\ peerStats[p].behaviourPenalty > 0
         /\ "t1" \in DOMAIN peerStats[p].topics
         /\ peerStats[p].topics["t1"].invalidMessageDeliveries > 0

\* what P3, the mesh-delivery deficit penalty, adds to the topic score:
\* the score less the score the same counters give with no deficit
p3Of(tstats, tp) ==
    topicScore(tstats, tp)
    - topicScore([tstats EXCEPT !.meshMessageDeliveries =
                                   tp.meshMessageDeliveriesThreshold], tp)

\* C20: the activation gate.  graft(p, t) always sets
\* meshMessageDeliveriesActive to false, and the flag becomes true only in
\* a _refreshScores run that finds p connected, in the mesh of t and
\* now - graftTime > meshMessageDeliveriesActivation; while the flag is
\* false P3 of (p, t) is 0, and prune and removePeer add nothing to
\* meshFailurePenalty, however few messages p delivered.
C20_ActivationGate ==
    [][\A p \in CntPeers :
         LET ts == topicStats(peerStats, p, "t1")
             tsAfter == topicStats(peerStats', p, "t1")
         IN /\ ( calls("Graft") /\ Graft(p, "t1") /\ p \in DOMAIN peerStats )
               => /\ "t1" \in DOMAIN peerStats'[p].topics
                  /\ tsAfter.inMesh
                  /\ ~tsAfter.meshMessageDeliveriesActive
            /\ ( ~ts.meshMessageDeliveriesActive /\ tsAfter.meshMessageDeliveriesActive )
               => /\ calls("RefreshScores")
                  /\ peerStats[p].connected
                  /\ ts.inMesh
                  /\ now - ts.graftTime > params.topics["t1"].meshMessageDeliveriesActivation
            /\ ~tsAfter.meshMessageDeliveriesActive
               => p3Of(tsAfter, params.topics["t1"]) = 0
            /\ ( /\ \/ calls("Prune") /\ Prune(p, "t1")
                    \/ calls("RemovePeer") /\ RemovePeer(p)
                 /\ ~ts.meshMessageDeliveriesActive
                 /\ p \in DOMAIN peerStats' )
               => tsAfter.meshFailurePenalty = ts.meshFailurePenalty
      ]_vars

\* a peer grafted after time 0 was pruned before any refresh activated the
\* topic, having delivered nothing: no mesh failure penalty, no P3
C20_Witness ==
    /\ last = "Prune"
    /\ \E p \in CntPeers :
         /\ p \in DOMAIN peerStats
         /\ "t1" \in DOMAIN peerStats[p].topics
         /\ peerStats[p].topics["t1"].graftTime > 0
         /\ ~peerStats[p].topics["t1"].inMesh
         /\ ~peerStats[p].topics["t1"].meshMessageDeliveriesActive
         /\ peerStats[p].topics["t1"].meshMessageDeliveries = 0
         /\ peerStats[p].topics["t1"].meshFailurePenalty = 0
         /\ now - peerStats[p].topics["t1"].graftTime
              > params.topics["t1"].meshMessageDeliveriesActivation

\* C21: the mesh failure penalty.  meshFailurePenalty of (p, t) increases
\* only in prune(p, t) or in a removePeer(p) that retains p, only when
\* meshMessageDeliveriesActive is true and meshMessageDeliveries is below
\* meshMessageDeliveriesThreshold at that moment, and then by exactly
\* (threshold - meshMessageDeliveries)^2; no other hook increases it, and
\* _refreshScores only decays it.
C21_MeshFailurePenalty ==
    [][\A p \in CntPeers :
         LET ts == topicStats(peerStats, p, "t1")
             tsAfter == topicStats(peerStats', p, "t1")
             threshold == params.topics["t1"].meshMessageDeliveriesThreshold
             deficit == threshold - ts.meshMessageDeliveries
         IN /\ tsAfter.meshFailurePenalty > ts.meshFailurePenalty
               => /\ \/ calls("Prune") /\ Prune(p, "t1")
                     \/ calls("RemovePeer") /\ RemovePeer(p) /\ retained(peerStats', p)
                  /\ ts.meshMessageDeliveriesActive
                  /\ ts.meshMessageDeliveries < threshold
                  /\ tsAfter.meshFailurePenalty
                       = ts.meshFailurePenalty + deficit * deficit
            /\ ( calls("RefreshScores") /\ p \in DOMAIN peerStats' )
               => tsAfter.meshFailurePenalty <= ts.meshFailurePenalty
      ]_vars

\* a pruned peer carries the penalty of a deficit of two deliveries
C21_Witness ==
    /\ last = "Prune"
    /\ \E p \in CntPeers :
         /\ p \in DOMAIN peerStats
         /\ "t1" \in DOMAIN peerStats[p].topics
         /\ peerStats[p].topics["t1"].meshMessageDeliveriesActive
         /\ peerStats[p].topics["t1"].meshMessageDeliveries = 0
         /\ peerStats[p].topics["t1"].meshFailurePenalty = 4

\* the number of consecutive _refreshScores runs the decay law is checked for
MaxRuns == 3

RECURSIVE refreshScoresTimes(_, _, _, _)
\* peerStats after n consecutive _refreshScores runs, nothing in between
refreshScoresTimes(ps, pips, t, n) ==
    IF n = 0 THEN ps
    ELSE refreshScoresTimes(refreshScores(ps, pips, t).peerStats,
                            refreshScores(ps, pips, t).peerIPs, t, n - 1)

\* each of the n runs decays integers to integers
exactThrough(ps, pips, t, n) ==
    \A k \in 0..(n - 1) : refreshIsExact(refreshScoresTimes(ps, pips, t, k))

RECURSIVE power(_, _)
power(b, n) == IF n = 0 THEN 1 ELSE b * power(b, n - 1)

\* x multiplied n times by the factor d, 0 when that is below decayToZero
decayedTimes(x, d, n) ==
    IF x * power(d.num, n) * params.decayToZero.den
         < params.decayToZero.num * power(d.den, n)
    THEN 0
    ELSE (x * power(d.num, n)) \div power(d.den, n)

\* C22: the decay law.  For a connected peer, after n consecutive
\* _refreshScores runs with no other hook in between, each of
\* firstMessageDeliveries, meshMessageDeliveries, meshFailurePenalty,
\* invalidMessageDeliveries and behaviourPenalty is its initial value
\* multiplied n times by its own decay factor, or 0 once that is below
\* decayToZero.
C22_DecayLaw ==
    \A p \in CntPeers : \A n \in 0..MaxRuns :
        ( /\ p \in DOMAIN peerStats
          /\ peerStats[p].connected
          /\ exactThrough(peerStats, peerIPs, now, n) )
        => LET after == refreshScoresTimes(peerStats, peerIPs, now, n)
               ts == topicStats(peerStats, p, "t1")
               tsAfter == topicStats(after, p, "t1")
               tp == params.topics["t1"]
           IN /\ p \in DOMAIN after
              /\ after[p].behaviourPenalty
                   = decayedTimes(peerStats[p].behaviourPenalty, params.behaviourPenaltyDecay, n)
              /\ tsAfter.firstMessageDeliveries
                   = decayedTimes(ts.firstMessageDeliveries, tp.firstMessageDeliveriesDecay, n)
              /\ tsAfter.meshMessageDeliveries
                   = decayedTimes(ts.meshMessageDeliveries, tp.meshMessageDeliveriesDecay, n)
              /\ tsAfter.meshFailurePenalty
                   = decayedTimes(ts.meshFailurePenalty, tp.meshFailurePenaltyDecay, n)
              /\ tsAfter.invalidMessageDeliveries
                   = decayedTimes(ts.invalidMessageDeliveries, tp.invalidMessageDeliveriesDecay, n)

\* a connected peer whose mesh failure penalty of 4 takes three runs to
\* reach 0, after a first run has halved it
C22_Witness ==
    /\ last = "RefreshScores"
    /\ \E p \in CntPeers :
         /\ p \in DOMAIN peerStats
         /\ peerStats[p].connected
         /\ "t1" \in DOMAIN peerStats[p].topics
         /\ peerStats[p].topics["t1"].meshFailurePenalty = 2
         /\ exactThrough(peerStats, peerIPs, now, MaxRuns)
         /\ topicStats(refreshScoresTimes(peerStats, peerIPs, now, 2), p, "t1").meshFailurePenalty = 0

\* peerStats with counter k of (p, "t1") raised by one, all else the same
raised(ps, p, k) ==
    [ps EXCEPT ![p].topics["t1"] =
        IF k = "invalidMessageDeliveries"
        THEN [@ EXCEPT !.invalidMessageDeliveries = @ + 1]
        ELSE [@ EXCEPT !.firstMessageDeliveries = @ + 1]]

\* the sum of the topic scores of p, before topicScoreCap is applied
topicScoreSum(ps, p) ==
    LET scored == (DOMAIN ps[p].topics) \cap (DOMAIN params.topics)
    IN SumOver([t \in scored |-> topicScore(ps[p].topics[t], params.topics[t])], scored)

\* p has counters for the scored topic, whose weights have the signs the
\* claim is about
hasScoredCounters(p) ==
    /\ p \in DOMAIN peerStats
    /\ "t1" \in DOMAIN peerStats[p].topics
    /\ params.topics["t1"].invalidMessageDeliveriesWeight < 0
    /\ params.topics["t1"].topicWeight > 0
    /\ params.topicScoreCap > 0

\* C23 as stated: score monotonicity.  All other stats and parameters
\* being the same (topicScoreCap positive), one more
\* invalidMessageDeliveries on a topic with a negative
\* invalidMessageDeliveriesWeight and a positive topicWeight strictly
\* decreases score(p), and one more firstMessageDeliveries never decreases
\* it.  (Violated: a topic score sum that is still at topicScoreCap or
\* above after the increase gives the same score.)
C23_ScoreMonotonicity ==
    \A p \in CntPeers :
        hasScoredCounters(p)
        => /\ score(raised(peerStats, p, "invalidMessageDeliveries"), peerIPs, p)
                < score(peerStats, peerIPs, p)
           /\ score(raised(peerStats, p, "firstMessageDeliveries"), peerIPs, p)
                >= score(peerStats, peerIPs, p)

\* C23, amended: one more invalidMessageDeliveries never increases
\* score(p); it strictly decreases score(p) when the topic score sum is
\* below topicScoreCap after the increase, and leaves score(p) as it was
\* when that sum is still at topicScoreCap or above.  One more
\* firstMessageDeliveries never decreases score(p).
C23_ScoreMonotonicityUnderCap ==
    \A p \in CntPeers :
        hasScoredCounters(p)
        => LET more == raised(peerStats, p, "invalidMessageDeliveries")
           IN /\ IF topicScoreSum(more, p) < params.topicScoreCap
                 THEN score(more, peerIPs, p) < score(peerStats, peerIPs, p)
                 ELSE score(more, peerIPs, p) = score(peerStats, peerIPs, p)
              /\ score(raised(peerStats, p, "firstMessageDeliveries"), peerIPs, p)
                   >= score(peerStats, peerIPs, p)

\* a peer whose topic score sum is above topicScoreCap, and stays at the
\* cap with one more invalid delivery
C23_Witness ==
    \E p \in CntPeers :
        /\ hasScoredCounters(p)
        /\ topicScoreSum(peerStats, p) > params.topicScoreCap
        /\ topicScoreSum(raised(peerStats, p, "invalidMessageDeliveries"), p)
             >= params.topicScoreCap

\* the number of peers in the bucket of ip
sharing(ip) == IF ip \in DOMAIN peerIPs THEN Cardinality(peerIPs[ip]) ELSE 0

\* the penalty of one entry ip of an ips list
penaltyFor(ip) ==
    IF ip \notin params.IPColocationFactorWhitelist
         /\ sharing(ip) > params.IPColocationFactorThreshold
    THEN params.IPColocationFactorWeight
           * (sharing(ip) - params.IPColocationFactorThreshold)
           * (sharing(ip) - params.IPColocationFactorThreshold)
    ELSE 0

\* how many entries of the list ips are ip
entriesOf(ips, ip) == Cardinality({i \in DOMAIN ips : ips[i] = ip})

\* C24: the IP colocation penalty.  The IP part of score(p) is the sum,
\* over the entries ip of peerStats[p].ips that are not whitelisted and
\* have n = |peerIPs[ip]| above IPColocationFactorThreshold, of
\* IPColocationFactorWeight * (n - threshold)^2; every one of the peers
\* that share an ip (the peers of its bucket) receives that penalty for the
\* ip, and a peer whose ips are each used by at most threshold peers
\* receives none.  (Violated: a peer that addPeer left in a bucket after
\* forgetting its ips list is counted in n and receives nothing.)
C24_IPColocationPenalty ==
    /\ \A p \in DOMAIN peerStats :
         /\ ipColocationScore(peerStats[p].ips, peerIPs)
              = SumOver([ip \in IPAddrs |->
                           entriesOf(peerStats[p].ips, ip) * penaltyFor(ip)], IPAddrs)
         /\ ( \A ip \in Range(peerStats[p].ips) :
                sharing(ip) <= params.IPColocationFactorThreshold )
            => ipColocationScore(peerStats[p].ips, peerIPs) = 0
    /\ \A ip \in DOMAIN peerIPs : \A p \in peerIPs[ip] :
         /\ p \in DOMAIN peerStats
         /\ ip \in Range(peerStats[p].ips)

\* the status of the record of m, "none" when there is no record
statusOf(recs, m) == IF m \in DOMAIN recs THEN recs[m].status ELSE "none"

\* C25: the delivery record state machine.  The status of the record of a
\* message id starts Unknown and changes at most once, to Valid (by
\* deliverMessage, when it resumes with the message id) or to Invalid or Ignored (by rejectMessage); a terminal
\* status never changes while the record exists; duplicateMessage and
\* validateMessage never change the status (a record they create is
\* Unknown); validated is non-zero iff the status is Valid.
C25_RecordStateMachine ==
    [][\A m \in RecMsgIds :
         LET old == statusOf(deliveryRecords, m)
             new == statusOf(deliveryRecords', m)
         IN /\ ( old \in {Valid, Invalid, Ignored} /\ new # "none" ) => new = old
            /\ ( old \in {"none", Unknown} /\ new = Valid )
               => calls("DeliverMessageAfterId")
            /\ ( old \in {"none", Unknown} /\ new \in {Invalid, Ignored} )
               => calls("RejectMessage")
            /\ ( calls("DuplicateMessage") \/ calls("ValidateMessage") )
               => new = (IF old = "none" THEN Unknown ELSE old) \/ new = old
            /\ new \in {"none", Unknown, Valid, Invalid, Ignored}
            /\ new # "none"
               => ( deliveryRecords'[m].validated # 0 <=> new = Valid )
      ]_vars

\* one message was ignored and the other delivered, the delivered one
\* stamped with its time of validation
C25_Witness ==
    /\ last = "RejectMessage"
    /\ statusOf(deliveryRecords, "m1") = Ignored
    /\ statusOf(deliveryRecords, "m2") = Valid
    /\ deliveryRecords["m2"].validated > 0

\* the step is a message hook that observes message id m, past its await
\* of the id
observes(m) ==
    \E from \in PeerIds :
        \/ calls("ValidateMessage") /\ ValidateMessage(m, from)
        \/ calls("DuplicateMessage") /\ DuplicateMessage(m, from)
        \/ calls("DeliverMessageAfterId") /\ DeliverMessageAfterId(m, from)
        \/ calls("RejectMessage")
             /\ \E reason \in RecReasons : RejectMessage(m, from, reason)

\* C26: delivery record expiry.  There is one record per message id, and
\* one queue entry per record, in insertion order, with expire = firstSeen
\* + TimeCacheDuration; gc() at time now removes the records with expire
\* <= now, which are at the front of the queue, and keeps the others as
\* they are; a hook that observes a message id whose record was collected
\* makes a fresh record, first seen now, with no earlier peers and no
\* earlier status, so that the message can reach a terminal status again.
C26_RecordExpiry ==
    [][/\ Len(queue') = Cardinality(DOMAIN deliveryRecords')
       /\ \A i \in DOMAIN queue' :
            /\ queue'[i].msgId \in DOMAIN deliveryRecords'
            /\ queue'[i].expire
                 = deliveryRecords'[queue'[i].msgId].firstSeen + TimeCacheDuration
            /\ \A j \in DOMAIN queue' :
                 /\ i < j => queue'[i].expire <= queue'[j].expire
                 /\ i # j => queue'[i].msgId # queue'[j].msgId
       /\ ( calls("Gc") /\ Gc )
          => /\ DOMAIN deliveryRecords'
                  = {m \in DOMAIN deliveryRecords :
                       deliveryRecords[m].firstSeen + TimeCacheDuration > now}
             /\ \A m \in DOMAIN deliveryRecords' :
                  deliveryRecords'[m] = deliveryRecords[m]
             /\ \E k \in 0..Len(queue) :
                  queue' = SubSeq(queue, k + 1, Len(queue))
       /\ \A m \in RecMsgIds :
            ( observes(m) /\ m \notin DOMAIN deliveryRecords )
            => /\ m \in DOMAIN deliveryRecords'
               /\ deliveryRecords'[m].firstSeen = now
               /\ deliveryRecords'[m].peers \subseteq
                    (IF calls("DuplicateMessage") THEN PeerIds ELSE {})
               /\ calls("ValidateMessage") \/ calls("DuplicateMessage")
                  => deliveryRecords'[m].status = Unknown
               /\ queue' = Append(queue, [msgId |-> m, expire |-> now + TimeCacheDuration])
      ]_vars

\* C26 witness: the record of m1 was Invalid, was collected, and m1 was
\* then seen and rejected again: its record is a fresh one, and p1 carries
\* the penalty of two rejections, the second of which it could only get on
\* a new record
C26_Witness ==
    /\ last = "RejectMessage"
    /\ DOMAIN deliveryRecords = {"m1"}
    /\ deliveryRecords["m1"].firstSeen = MaxTime
    /\ deliveryRecords["m1"].status = Invalid
    /\ Len(queue) = 1
    /\ \E p \in CntPeers :
         /\ p \in DOMAIN peerStats
         /\ topicStats(peerStats, p, "t1").invalidMessageDeliveries = 2

\* C27: duplicates that beat validation are credited on delivery.  A
\* duplicateMessage from p that finds the record Unknown (or makes it)
\* adds p to the peers of the record and changes no counter; when
\* deliverMessage then makes the record Valid, every p of its peers other
\* than receivedFrom that is known and in the mesh of the scored topic gets
\* meshMessageDeliveries + 1, clamped to the cap, however long ago its
\* duplicate arrived.
C27_EarlyDuplicatesCredited ==
    [][\A m \in MsgIds, from \in PeerIds :
         /\ ( /\ calls("DuplicateMessage")
              /\ DuplicateMessage(m, from)
              /\ statusOf(deliveryRecords, m) \in {"none", Unknown} )
            => /\ from \in deliveryRecords'[m].peers
               /\ statusOf(deliveryRecords', m) = Unknown
               /\ peerStats' = peerStats
         /\ ( /\ calls("DeliverMessageAfterId")
              /\ DeliverMessageAfterId(m, from)
              /\ statusOf(deliveryRecords, m) = Unknown )
            => /\ statusOf(deliveryRecords', m) = Valid
               /\ \A p \in deliveryRecords[m].peers \ {from} :
                    ( p \in DOMAIN peerStats /\ topicStats(peerStats, p, "t1").inMesh )
                    => topicStats(peerStats', p, "t1").meshMessageDeliveries
                         = Min(topicStats(peerStats, p, "t1").meshMessageDeliveries + 1,
                               params.topics["t1"].meshMessageDeliveriesCap)
      ]_vars

\* the message was delivered more than a delivery window after it was
\* first seen as a duplicate from a mesh peer, which has its credit
C27_Witness ==
    /\ last = "DeliverMessageAfterId"
    /\ \E m \in DOMAIN deliveryRecords : \E p \in deliveryRecords[m].peers :
         /\ deliveryRecords[m].status = Valid
         /\ deliveryRecords[m].validated = now
         /\ now > deliveryRecords[m].firstSeen
                    + params.topics["t1"].meshMessageDeliveriesWindow
         /\ topicStats(peerStats, p, "t1").inMesh
         /\ topicStats(peerStats, p, "t1").firstMessageDeliveries = 0
         /\ topicStats(peerStats, p, "t1").meshMessageDeliveries = 1

\* the topics that are not scored
UnscoredTopics == AllTopics \ DOMAIN params.topics

\* C28: TopicStats exist only for scored topics.  After any sequence of
\* graft, prune, deliverMessage, rejectMessage and duplicateMessage, with
\* topics that are scored and topics that are not, every key of
\* peerStats[p].topics is a key of params.topics; graft and prune of an
\* unscored topic change nothing, and the message hooks, whose messages
\* name a scored and an unscored topic, make no TopicStats for the
\* unscored one.
C28_OnlyScoredTopics ==
    [][/\ \A p \in DOMAIN peerStats' :
            DOMAIN peerStats'[p].topics \subseteq DOMAIN params.topics
       /\ \A p \in CntPeers, topic \in UnscoredTopics :
            ( \/ calls("Graft") /\ Graft(p, topic)
              \/ calls("Prune") /\ Prune(p, topic) )
            => peerStats' = peerStats
      ]_vars

\* a message that names the scored topic and an unscored one was
\* delivered by a peer that had no TopicStats: it has them for the scored
\* topic only
C28_Witness ==
    /\ last = "DeliverMessageAfterId"
    /\ \E p \in CntPeers :
         /\ p \in DOMAIN peerStats
         /\ DOMAIN peerStats[p].topics = {"t1"}
         /\ ~peerStats[p].topics["t1"].inMesh
         /\ peerStats[p].topics["t1"].firstMessageDeliveries = 1
         /\ \E m \in DOMAIN deliveryRecords :
              \E i \in DOMAIN TopicIDs(m) : TopicIDs(m)[i] \in UnscoredTopics

\* C29: the post-state of a retaining removePeer.  When removePeer(p)
\* finds score(p) <= 0, afterwards connected is false, expire is now +
\* retainScore, and for every topic of p firstMessageDeliveries is 0 and
\* inMesh is false, while invalidMessageDeliveries, meshMessageDeliveries,
\* behaviourPenalty and the entries of p in peerIPs are as they were and
\* meshFailurePenalty is as it was or higher by the deficit squared.
C29_RetainingRemovePeer ==
    [][\A p \in CntPeers :
         ( /\ calls("RemovePeer")
           /\ RemovePeer(p)
           /\ p \in DOMAIN peerStats
           /\ score(peerStats, peerIPs, p) <= 0 )
         => /\ p \in DOMAIN peerStats'
            /\ ~peerStats'[p].connected
            /\ peerStats'[p].expire = now + params.retainScore
            /\ peerStats'[p].behaviourPenalty = peerStats[p].behaviourPenalty
            /\ peerStats'[p].ips = peerStats[p].ips
            /\ peerIPs' = peerIPs
            /\ DOMAIN peerStats'[p].topics = DOMAIN peerStats[p].topics
            /\ \A topic \in DOMAIN peerStats[p].topics :
                 LET ts == peerStats[p].topics[topic]
                     tsAfter == peerStats'[p].topics[topic]
                     deficit == params.topics[topic].meshMessageDeliveriesThreshold
                                  - ts.meshMessageDeliveries
                 IN /\ tsAfter.firstMessageDeliveries = 0
                    /\ ~tsAfter.inMesh
                    /\ tsAfter.invalidMessageDeliveries = ts.invalidMessageDeliveries
                    /\ tsAfter.meshMessageDeliveries = ts.meshMessageDeliveries
                    /\ \/ tsAfter.meshFailurePenalty = ts.meshFailurePenalty
                       \/ /\ deficit > 0
                          /\ tsAfter.meshFailurePenalty
                               = ts.meshFailurePenalty + deficit * deficit
      ]_vars

\* a peer with an address left the mesh by disconnecting, with a deficit
\* of two deliveries: it is retained with the penalty and still indexed
C29_Witness ==
    /\ last = "RemovePeer"
    /\ \E p \in CntPeers :
         /\ retained(peerStats, p)
         /\ peerStats[p].expire = now + params.retainScore
         /\ tracked(peerIPs, p, "i1")
         /\ "t1" \in DOMAIN peerStats[p].topics
         /\ peerStats[p].topics["t1"].meshMessageDeliveriesActive
         /\ peerStats[p].topics["t1"].meshFailurePenalty = 4

\* C30: no stale peers in the IP index.  After any sequence of addPeer
\* (also for an id that is already known, after its connections changed),
\* removePeer, background runs and stop, every peer id in a bucket of
\* peerIPs is a key of peerStats, so that a dropped peer no longer counts
\* toward the IP colocation penalty of the others.  (Violated: a peer
\* whose ips list addPeer forgot stays in the bucket when it is dropped.)
C30_NoStalePeers ==
    \A ip \in DOMAIN peerIPs : peerIPs[ip] \subseteq DOMAIN peerStats

\* C31: rejectMessage penalises the sender twice when it is also an earlier
\* forwarder.  When receivedFrom is already in record.peers (its
\* duplicateMessage arrived while the record was Unknown) and rejectMessage
\* makes the record Invalid, invalidMessageDeliveries of receivedFrom on the
\* scored topic goes up by 2 for that one message, and that of every other
\* forwarder by 1.
C31_SenderPenalisedTwice ==
    [][\A m \in MsgIds, from \in PeerIds :
         (calls("RejectMessage")
            /\ (\E reason \in Reasons \ (SignatureReasons \cup {ERR_TOPIC_VALIDATOR_IGNORE}) :
                   RejectMessage(m, from, reason))
            /\ hasStatus(deliveryRecords, m, Unknown)
            /\ from \in forwarders(deliveryRecords, m)
            /\ from \in DOMAIN peerStats)
         => /\ hasStatus(deliveryRecords', m, Invalid)
            /\ topicStats(peerStats', from, "t1").invalidMessageDeliveries
                 = topicStats(peerStats, from, "t1").invalidMessageDeliveries + 2
            /\ \A p \in (forwarders(deliveryRecords, m) \cap DOMAIN peerStats) \ {from} :
                 topicStats(peerStats', p, "t1").invalidMessageDeliveries
                   = topicStats(peerStats, p, "t1").invalidMessageDeliveries + 1
      ]_vars

\* C31 witness: both peers forwarded the message while it was Unknown, p1
\* then had it rejected: p1 carries two invalid deliveries, p2 one
C31_Witness ==
    /\ last = "RejectMessage"
    /\ hasStatus(deliveryRecords, "m1", Invalid)
    /\ deliveryRecords["m1"].peers = {"p1", "p2"}
    /\ PeerIds \subseteq DOMAIN peerStats
    /\ topicStats(peerStats, "p1", "t1").invalidMessageDeliveries = 2
    /\ topicStats(peerStats, "p2", "t1").invalidMessageDeliveries = 1

\* C32: prune does not require mesh membership and does not clear the
\* activation flag.  prune(p, t) and a removePeer(p) that retains p leave
\* meshMessageDeliveriesActive as it is, and the flag of a TopicStats goes
\* from true to false in graft only (addPeer puts a new PeerStats, with no
\* TopicStats, in its place); so every prune(p, t) of a known peer made while the
\* flag is set and meshMessageDeliveries is below the threshold, in the mesh
\* or not, adds the squared deficit to meshFailurePenalty: a second prune
\* with no graft in between adds it again.
C32_PruneRepeatsPenalty ==
    [][\A p \in CntPeers :
         LET ts == topicStats(peerStats, p, "t1")
             tsAfter == topicStats(peerStats', p, "t1")
             threshold == params.topics["t1"].meshMessageDeliveriesThreshold
             deficit == threshold - ts.meshMessageDeliveries
         IN /\ (calls("Prune") /\ Prune(p, "t1") /\ p \in DOMAIN peerStats)
               => /\ tsAfter.meshMessageDeliveriesActive = ts.meshMessageDeliveriesActive
                  /\ ~tsAfter.inMesh
                  /\ (ts.meshMessageDeliveriesActive /\ ts.meshMessageDeliveries < threshold)
                       => tsAfter.meshFailurePenalty
                            = ts.meshFailurePenalty + deficit * deficit
            /\ (calls("RemovePeer") /\ RemovePeer(p) /\ p \in DOMAIN peerStats')
               => tsAfter.meshMessageDeliveriesActive = ts.meshMessageDeliveriesActive
            /\ (ts.meshMessageDeliveriesActive /\ ~tsAfter.meshMessageDeliveriesActive
                  /\ p \in DOMAIN peerStats')
               => \/ calls("Graft") /\ Graft(p, "t1")
                  \/ calls("AddPeer") /\ peerStats'[p] = createPeerStats
      ]_vars

\* C32 witness: the peer was pruned one delivery short of the threshold and
\* pruned again while out of the mesh: it carries the penalty of the
\* deficit twice
C32_Witness ==
    /\ last = "Prune"
    /\ \E p \in CntPeers :
         /\ p \in DOMAIN peerStats
         /\ "t1" \in DOMAIN peerStats[p].topics
         /\ ~peerStats[p].topics["t1"].inMesh
         /\ peerStats[p].topics["t1"].meshMessageDeliveriesActive
         /\ peerStats[p].topics["t1"].meshMessageDeliveries = 1
         /\ peerStats[p].topics["t1"].meshFailurePenalty = 2

\* C33: duplicates of an invalid message are penalised on every arrival.
\* duplicateMessage on a record that is Invalid, from a known peer that is
\* not in record.peers, increments the peer's invalidMessageDeliveries on the
\* scored topic by 1 and leaves the record as it is, record.peers too, so
\* the next duplicate of that peer does the same again; on a record that is
\* Valid the first duplicate of a peer puts it into record.peers, and its
\* later duplicates change no counter and no record.
C33_InvalidDuplicatesRepeat ==
    [][\A m \in MsgIds, from \in PeerIds :
         (calls("DuplicateMessage") /\ DuplicateMessage(m, from))
         => /\ (hasStatus(deliveryRecords, m, Invalid)
                  /\ from \notin deliveryRecords[m].peers
                  /\ from \in DOMAIN peerStats)
               => /\ topicStats(peerStats', from, "t1").invalidMessageDeliveries
                       = topicStats(peerStats, from, "t1").invalidMessageDeliveries + 1
                  /\ deliveryRecords' = deliveryRecords
                  /\ from \notin deliveryRecords'[m].peers
            /\ (hasStatus(deliveryRecords, m, Valid)
                  /\ from \notin deliveryRecords[m].peers)
               => from \in deliveryRecords'[m].peers
            /\ (hasStatus(deliveryRecords, m, Valid)
                  /\ from \in deliveryRecords[m].peers)
               => /\ peerStats' = peerStats
                  /\ deliveryRecords' = deliveryRecords
      ]_vars

\* C33 witness: p2 never forwarded the message before p1 had it rejected,
\* and carries two invalid deliveries from sending it twice afterwards
C33_Witness ==
    /\ last = "DuplicateMessage"
    /\ hasStatus(deliveryRecords, "m1", Invalid)
    /\ deliveryRecords["m1"].peers = {}
    /\ "p2" \in DOMAIN peerStats
    /\ topicStats(peerStats, "p2", "t1").invalidMessageDeliveries = 2

====
